---------------------------- MODULE Spec2Model ----------------------------
(***************************************************************************)
(* The trigger timeline of sequencer64 (libseq64/src/triggers.cpp): the    *)
(* per-track list of on/off intervals, its edit operations, its undo/redo  *)
(* stacks, its selection count and the play() evaluation that drives the   *)
(* parent track's playing flag.                                            *)
(*                                                                         *)
(* A trigger is a record [ts, te, off, sel] (tick_start, tick_end, offset, *)
(* selected).  The std::list of triggers is a sequence; an iterator is an  *)
(* index into it.                                                          *)
(***************************************************************************)
EXTENDS Integers, Sequences, FiniteSets, TLC

VARIABLES
    m_triggers,         \* the live trigger list
    m_number_selected,  \* the running count of selected triggers
    m_clipboard,        \* the clipboard trigger
    m_trigger_copied,   \* whether the clipboard holds a copy
    m_paste_tick,       \* pending paste tick, or SEQ64_NO_PASTE_TRIGGER
    m_undo_stack,       \* sequence of lists, top is the last element
    m_redo_stack,       \* sequence of lists, top is the last element
    m_length,           \* content length of the parent sequence
    m_ppqn,             \* pulses per quarter note
    playing,            \* parent sequence: get_playing()
    m_last_tick,        \* parent sequence: m_last_tick
    trigger_offset,     \* parent sequence: trigger offset scratch value
    aborted,            \* the process stopped in undefined behaviour
    cfg,                \* the exploration's bounds, and whether history is recorded
    last,               \* history: the last completed operation and its arguments
    pre,                \* history: the live list and count before that operation
    undo_pre,           \* history: per undo entry, the live list before its push
    plog,               \* history: the play calls made so far and what they returned
    m_mutex,            \* parent sequence: who holds its mutex ("free", "edit", "play")
    editing,            \* the control thread inside add: << >>, or the trigger being added
    scanning,           \* the output driver inside play: << >>, or its arguments and the list it began on
    m_jack_asst         \* the transport bridge: its m_ppqn and the m_jack_pos fields it converts with

vars == << m_triggers, m_number_selected, m_clipboard, m_trigger_copied,
           m_paste_tick, m_undo_stack, m_redo_stack, m_length, m_ppqn,
           playing, m_last_tick, trigger_offset, aborted, cfg, last, pre,
           undo_pre, plog, m_mutex, editing, scanning, m_jack_asst >>

----------------------------------------------------------------------------
(* Bounds of the model *)

MaxTick == 4

MaxTriggers == 3

SelMaxTick == 3

SelMaxTriggers == 2

MaxUndo == 1

(* cfg holds the bounds a specification explores under: the largest tick   *)
(* an argument takes, the longest list kept, the lengths add is called     *)
(* with, and what the history variables record of each call: "full" (its   *)
(* name, arguments and pre-state), "op" (its name), "undo" (pop_undo and   *)
(* pop_redo only) or "none".  A limited                                    *)
(* run also counts down the calls it may still make.                       *)
Bounds(maxtick, maxtrigs, maxlen, tracking) ==
    [maxtick |-> maxtick, maxtrigs |-> maxtrigs, maxlen |-> maxlen,
     track |-> tracking, limited |-> FALSE, calls |-> 0, maxundo |-> MaxUndo]

Limited(bounds, calls) == [bounds EXCEPT !.limited = TRUE, !.calls = calls]

(* The same bounds with room for n lists on the undo and redo stacks *)
WithUndo(bounds, n) == [bounds EXCEPT !.maxundo = n]

Spent ==
    /\ cfg.limited => cfg.calls > 0
    /\ cfg' = IF cfg.limited THEN [cfg EXCEPT !.calls = @ - 1] ELSE cfg

UndoMaxTick == 1

MaxCount == 2

SEQ64_NO_PASTE_TRIGGER == -1

Ticks == 0 .. cfg.maxtick

----------------------------------------------------------------------------
(* The trigger type and list helpers *)

Trig(s, e, o, sl) == [ts |-> s, te |-> e, off |-> o, sel |-> sl]

DefaultTrigger == Trig(0, 0, 0, FALSE)

EraseAt(L, i) == [k \in 1 .. Len(L) - 1 |-> IF k < i THEN L[k] ELSE L[k + 1]]

PushFront(L, t) == <<t>> \o L

(* trigger::operator < compares tick_start only *)
TriggerLess(a, b) == a.ts < b.ts

(* std::list::sort: a stable sort under TriggerLess.  Inserting the        *)
(* elements from first to last, each after every element not greater than  *)
(* it, keeps equal elements in their original order.                       *)
RECURSIVE InsertSorted(_, _)
InsertSorted(S, x) ==
    IF S = << >> THEN <<x>>
    ELSE IF TriggerLess(x, Head(S)) THEN <<x>> \o S
    ELSE <<Head(S)>> \o InsertSorted(Tail(S), x)

RECURSIVE SortFrom(_, _)
SortFrom(L, acc) ==
    IF L = << >> THEN acc ELSE SortFrom(Tail(L), InsertSorted(acc, Head(L)))

Sort_unsorted(L) == L

Sort(L) == SortFrom(L, << >>)

(* C++ operator % on signed integers truncates toward zero *)
CRem(a, b) == IF a >= 0 THEN a % b ELSE -((-a) % b)

CountSelected(L) == Cardinality({k \in 1 .. Len(L) : L[k].sel})

----------------------------------------------------------------------------
(* triggers::adjust_offset *)

adjust_offset_nofold(offset) ==
    IF m_length > 0 THEN CRem(offset, m_length) ELSE offset

adjust_offset(offset) ==
    IF m_length > 0
    THEN LET r == CRem(offset, m_length)
         IN  IF r < 0 THEN r + m_length ELSE r
    ELSE offset

----------------------------------------------------------------------------
(* triggers::select (trigger &, bool) and triggers::unselect (trigger &,   *)
(* bool): the flag changes, and the count follows it when count is true.   *)

SelectedCountAfterSelect_uncounted(t, n, count) == n

SelectedCountAfterSelect(t, n, count) ==
    IF ~t.sel /\ count THEN n + 1 ELSE n

SelectedCountAfterUnselect_uncounted(t, n, count) == n

SelectedCountAfterUnselect(t, n, count) ==
    IF t.sel /\ count /\ n > 0 THEN n - 1 ELSE n

----------------------------------------------------------------------------
(* triggers::add.  The loop's state is the list, the iterator i and the    *)
(* selection count.  After an erase the code sets i = begin() and executes *)
(* `continue`, which runs the for statement's ++i: the scan resumes at the *)
(* second element of the shortened list.  When the erase emptied the list  *)
(* that ++i increments end(): `ub` records it.                             *)

AddErases(x, t) == x.ts >= t.ts /\ x.te <= t.te

AddPushesStart(x, t) == x.te >= t.te /\ x.ts <= t.te

AddPullsEnd(x, t) == x.te >= t.ts /\ x.ts <= t.ts

AddResumeIndex == 2

RECURSIVE AddLoop(_, _, _, _, _)
AddLoop(L, i, n, t, ub) ==
    IF i > Len(L) THEN [trigs |-> L, nsel |-> n, ub |-> ub]
    ELSE LET x == L[i] IN
         IF AddErases(x, t)
         THEN AddLoop(EraseAt(L, i), AddResumeIndex,
                      SelectedCountAfterUnselect(x, n, TRUE), t,
                      ub \/ Len(L) = 1)
         ELSE IF AddPushesStart(x, t)
         THEN AddLoop([L EXCEPT ![i].ts = t.te + 1], i + 1, n, t, ub)
         ELSE IF AddPullsEnd(x, t)
         THEN AddLoop([L EXCEPT ![i].te = t.ts - 1], i + 1, n, t, ub)
         ELSE AddLoop(L, i + 1, n, t, ub)

(* The loop, then push_front and sort, for the trigger t already built *)
AddTrigger(L, n, t) ==
    LET r == AddLoop(L, 1, n, t, FALSE)
    IN  [trigs |-> Sort(PushFront(r.trigs, t)), nsel |-> r.nsel, ub |-> r.ub]

add(L, n, tick, len, offset, fixoffset) ==
    AddTrigger(L, n, Trig(tick, tick + len - 1,
                          IF fixoffset THEN adjust_offset(offset) ELSE offset,
                          FALSE))

(* Inside move the list's elements carry an id field, the identity of the  *)
(* list node, so that an iterator can be followed across push_front and    *)
(* sort.  A trigger built from such an element gets an id of its own.      *)
MaxId(L) ==
    IF L = << >> THEN 0
    ELSE CHOOSE m \in {L[k].id : k \in 1 .. Len(L)} :
            \A k \in 1 .. Len(L) : L[k].id <= m

Fresh(L, x) ==
    IF "id" \in DOMAIN x THEN [x EXCEPT !.id = MaxId(L) + 1] ELSE x

Tag(L) ==
    [k \in 1 .. Len(L) |->
        [ts |-> L[k].ts, te |-> L[k].te, off |-> L[k].off, sel |-> L[k].sel,
         id |-> k]]

Untag(L) ==
    [k \in 1 .. Len(L) |-> Trig(L[k].ts, L[k].te, L[k].off, L[k].sel)]

IndexOf(L, id) == CHOOSE k \in 1 .. Len(L) : L[k].id = id

----------------------------------------------------------------------------
(* triggers::split (trigger &, midipulse): the trigger at index i is cut   *)
(* to end at splittick - 1, and the rest is added when len > 1.            *)

SplitThreshold == 1

split_longer_than_one(L, n, i, splittick) ==
    LET new_tick_end == L[i].te
        L1 == [L EXCEPT ![i].te = splittick - 1]
        len == new_tick_end - splittick
    IN  IF len + 1 > SplitThreshold
        THEN AddTrigger(L1, n,
                 Fresh(L1, [L1[i] EXCEPT !.ts = splittick,
                                         !.te = splittick + (len + 1) - 1,
                                         !.off = adjust_offset(L1[i].off),
                                         !.sel = FALSE]))
        ELSE [trigs |-> L1, nsel |-> n, ub |-> FALSE]

split(L, n, i, splittick) ==
    LET new_tick_end == L[i].te
        L1 == [L EXCEPT ![i].te = splittick - 1]
        len == new_tick_end - splittick
    IN  IF len > SplitThreshold
        THEN AddTrigger(L1, n,
                 Fresh(L1, [L1[i] EXCEPT !.ts = splittick,
                                         !.te = splittick + (len + 1) - 1,
                                         !.off = adjust_offset(L1[i].off),
                                         !.sel = FALSE]))
        ELSE [trigs |-> L1, nsel |-> n, ub |-> FALSE]

----------------------------------------------------------------------------
(* History of the last completed call *)

NoOp == [op |-> "none", a |-> 0, b |-> 0, c |-> 0]

Op(name, x, y, z) == [op |-> name, a |-> x, b |-> y, c |-> z]

Snapshot ==
    [trigs |-> m_triggers, nsel |-> m_number_selected, clip |-> m_clipboard,
     copied |-> m_trigger_copied, ptick |-> m_paste_tick,
     undo |-> m_undo_stack, redo |-> m_redo_stack]

NoSnapshot ==
    [trigs |-> << >>, nsel |-> 0, clip |-> DefaultTrigger, copied |-> FALSE,
     ptick |-> SEQ64_NO_PASTE_TRIGGER, undo |-> << >>, redo |-> << >>]

(* The history variables after a completed call *)
Record(name, x, y, z) ==
    /\ Spent
    /\ last' = CASE cfg.track = "full" -> Op(name, x, y, z)
                  [] cfg.track = "op" -> Op(name, 0, 0, 0)
                  [] OTHER -> NoOp
    /\ pre' = IF cfg.track = "full" THEN Snapshot ELSE NoSnapshot

HistoryUnchanged == UNCHANGED << cfg, last, pre >>

InBounds(L) ==
    /\ Len(L) <= cfg.maxtrigs
    /\ \A k \in 1 .. Len(L) :
          /\ L[k].ts \in -1 .. cfg.maxtick + 1
          /\ L[k].te \in -1 .. cfg.maxtick + 1

----------------------------------------------------------------------------
(* Initial state: the constructor, then the parent sequence's set_length   *)
(* and set_ppqn.                                                           *)

(* The bridge object's fields: jack_assistant::m_ppqn, and the two fields   *)
(* of m_jack_pos that tick_multiplier reads.                               *)
JackAssistant(ppqn, ticks_per_beat, beat_type) ==
    [m_ppqn |-> ppqn,
     m_jack_pos |-> [ticks_per_beat |-> ticks_per_beat,
                     beat_type |-> beat_type]]

Constructed(length, ppqn, bounds, first) ==
    /\ cfg = bounds
    /\ undo_pre = << >>
    /\ plog = << >>
    /\ m_mutex = "free"
    /\ editing = << >>
    /\ scanning = << >>
    /\ m_jack_asst = JackAssistant(ppqn, ppqn, 4)
    /\ m_triggers = << >>
    /\ m_number_selected = 0
    /\ m_clipboard = DefaultTrigger
    /\ m_trigger_copied = FALSE
    /\ m_paste_tick = SEQ64_NO_PASTE_TRIGGER
    /\ m_undo_stack = << >>
    /\ m_redo_stack = << >>
    /\ m_length = length
    /\ m_ppqn = ppqn
    /\ playing = FALSE
    /\ m_last_tick = 0
    /\ trigger_offset = 0
    /\ aborted = FALSE
    /\ last = first
    /\ pre = NoSnapshot

Length == 4

Ppqn == 16

Init == Constructed(Length, Ppqn, Bounds(MaxTick, MaxTriggers, MaxTick + 1, "full"), NoOp)

----------------------------------------------------------------------------
(* Actions *)

ListUnchanged == UNCHANGED << m_triggers, m_number_selected >>

ClipUnchanged == UNCHANGED << m_clipboard, m_trigger_copied, m_paste_tick >>

StacksUnchanged == UNCHANGED << m_undo_stack, m_redo_stack, undo_pre >>

ThreadsUnchanged == UNCHANGED << m_mutex, editing, scanning >>

ParentUnchanged ==
    /\ UNCHANGED << m_jack_asst, m_length, m_ppqn, playing, m_last_tick, trigger_offset,
                    plog >>
    /\ ThreadsUnchanged

(* add(tick, len, offset) with len >= 1 *)
Add(tick, len, offset) ==
    LET r == add(m_triggers, m_number_selected, tick, len, offset, TRUE) IN
    /\ ~aborted
    /\ InBounds(r.trigs)
    /\ m_triggers' = r.trigs
    /\ m_number_selected' = r.nsel
    /\ Record("add", tick, len, offset)
    /\ aborted' = aborted
    /\ ClipUnchanged /\ StacksUnchanged /\ ParentUnchanged

(* add's ++i on end() of the emptied list, in a build whose iterators are  *)
(* checked, stops the process.                                             *)
AddAborts(tick, len, offset) ==
    /\ ~aborted
    /\ add(m_triggers, m_number_selected, tick, len, offset, TRUE).ub
    /\ aborted' = TRUE
    /\ HistoryUnchanged
    /\ ListUnchanged /\ ClipUnchanged /\ StacksUnchanged /\ ParentUnchanged

AddOffsets == {0}

AddArgs ==
    {a \in Ticks \X (1 .. cfg.maxlen) : a[1] + a[2] - 1 <= cfg.maxtick}

AddAny == \E a \in AddArgs, o \in AddOffsets : Add(a[1], a[2], o)

AddAbortsAny == \E a \in AddArgs, o \in AddOffsets : AddAborts(a[1], a[2], o)

NextAdd == AddAny \/ AddAbortsAny

SpecAdd == Init /\ [][NextAdd]_vars

----------------------------------------------------------------------------
(* Selection: triggers::select (midipulse), triggers::unselect (midipulse) *)
(* and triggers::unselect () visit every trigger of the list.              *)

Brackets(x, tick) == x.ts <= tick /\ tick <= x.te

RECURSIVE SelectLoop(_, _, _, _)
SelectLoop(L, i, n, tick) ==
    IF i > Len(L) THEN [trigs |-> L, nsel |-> n]
    ELSE IF Brackets(L[i], tick)
    THEN SelectLoop([L EXCEPT ![i].sel = TRUE], i + 1,
                    SelectedCountAfterSelect(L[i], n, TRUE), tick)
    ELSE SelectLoop(L, i + 1, n, tick)

RECURSIVE UnselectLoop(_, _, _, _, _)
UnselectLoop(L, i, n, tick, every) ==
    IF i > Len(L) THEN [trigs |-> L, nsel |-> n]
    ELSE IF every \/ Brackets(L[i], tick)
    THEN UnselectLoop([L EXCEPT ![i].sel = FALSE], i + 1,
                      SelectedCountAfterUnselect(L[i], n, TRUE), tick, every)
    ELSE UnselectLoop(L, i + 1, n, tick, every)

FirstBracketing(L, tick) ==
    IF \E k \in 1 .. Len(L) : Brackets(L[k], tick)
    THEN CHOOSE k \in 1 .. Len(L) :
            /\ Brackets(L[k], tick)
            /\ \A j \in 1 .. k - 1 : ~Brackets(L[j], tick)
    ELSE 0

FirstSelected(L) ==
    IF \E k \in 1 .. Len(L) : L[k].sel
    THEN CHOOSE k \in 1 .. Len(L) :
            L[k].sel /\ \A j \in 1 .. k - 1 : ~L[j].sel
    ELSE 0

(* triggers::remove and triggers::remove_selected: unselect, erase, break *)
RemoveAt(L, n, k) ==
    IF k = 0 THEN [trigs |-> L, nsel |-> n]
    ELSE [trigs |-> EraseAt(L, k),
          nsel |-> SelectedCountAfterUnselect(L[k], n, TRUE)]

remove(L, n, tick) == RemoveAt(L, n, FirstBracketing(L, tick))

remove_selected(L, n) == RemoveAt(L, n, FirstSelected(L))

Select(tick) ==
    LET r == SelectLoop(m_triggers, 1, m_number_selected, tick) IN
    /\ ~aborted
    /\ r.nsel <= MaxCount
    /\ m_triggers' = r.trigs
    /\ m_number_selected' = r.nsel
    /\ Record("select", tick, 0, 0)
    /\ aborted' = aborted
    /\ ClipUnchanged /\ StacksUnchanged /\ ParentUnchanged

UnselectTick(tick) ==
    LET r == UnselectLoop(m_triggers, 1, m_number_selected, tick, FALSE) IN
    /\ ~aborted
    /\ m_triggers' = r.trigs
    /\ m_number_selected' = r.nsel
    /\ Record("unselect_tick", tick, 0, 0)
    /\ aborted' = aborted
    /\ ClipUnchanged /\ StacksUnchanged /\ ParentUnchanged

UnselectAll ==
    LET r == UnselectLoop(m_triggers, 1, m_number_selected, 0, TRUE) IN
    /\ ~aborted
    /\ m_triggers' = r.trigs
    /\ m_number_selected' = r.nsel
    /\ Record("unselect", 0, 0, 0)
    /\ aborted' = aborted
    /\ ClipUnchanged /\ StacksUnchanged /\ ParentUnchanged

Remove(tick) ==
    LET r == remove(m_triggers, m_number_selected, tick) IN
    /\ ~aborted
    /\ m_triggers' = r.trigs
    /\ m_number_selected' = r.nsel
    /\ Record("remove", tick, 0, 0)
    /\ aborted' = aborted
    /\ ClipUnchanged /\ StacksUnchanged /\ ParentUnchanged

RemoveSelected ==
    LET r == remove_selected(m_triggers, m_number_selected) IN
    /\ ~aborted
    /\ m_triggers' = r.trigs
    /\ m_number_selected' = r.nsel
    /\ Record("remove_selected", 0, 0, 0)
    /\ aborted' = aborted
    /\ ClipUnchanged /\ StacksUnchanged /\ ParentUnchanged

SelectAny == \E tick \in Ticks : Select(tick)

UnselectTickAny == \E tick \in Ticks : UnselectTick(tick)

RemoveAny == \E tick \in Ticks : Remove(tick)

InitSel ==
    Constructed(Length, Ppqn, Bounds(SelMaxTick, SelMaxTriggers, SelMaxTick + 1, "op"), NoOp)

NextSel ==
    \/ AddAny
    \/ AddAbortsAny
    \/ SelectAny
    \/ UnselectTickAny
    \/ UnselectAll
    \/ RemoveAny
    \/ RemoveSelected

SpecSel == InitSel /\ [][NextSel]_vars

----------------------------------------------------------------------------
(* triggers::exact_split, triggers::half_split, triggers::split (tick) and *)
(* triggers::grow act on the first trigger bracketing the tick.            *)

Unchanged(L, n) == [trigs |-> L, nsel |-> n, ub |-> FALSE]

HalfTick_early(x) == x.ts + ((x.te - x.ts) \div 2)

HalfTick(x) == x.ts + ((x.te - x.ts + 1) \div 2)

exact_split(L, n, splittick) ==
    LET i == FirstBracketing(L, splittick) IN
    IF i = 0 THEN Unchanged(L, n) ELSE split(L, n, i, splittick)

half_split(L, n, splittick) ==
    LET i == FirstBracketing(L, splittick) IN
    IF i = 0 THEN Unchanged(L, n) ELSE split(L, n, i, HalfTick(L[i]))

split_tick(L, n, splittick, allow_snap_split) ==
    IF allow_snap_split
    THEN exact_split(L, n, splittick)
    ELSE half_split(L, n, splittick)

grow(L, n, tickfrom, tickto, len) ==
    LET i == FirstBracketing(L, tickfrom) IN
    IF i = 0 THEN Unchanged(L, n)
    ELSE LET calcend == tickto + len - 1
             start == IF tickto < L[i].ts THEN tickto ELSE L[i].ts
             ender == IF calcend > L[i].te THEN calcend ELSE L[i].te
         IN  add(L, n, start, ender - start + 1, L[i].off, TRUE)

(* An edit of the list and the count alone, with its history record *)
Edit(r, name, x, y, z) ==
    /\ ~aborted
    /\ InBounds(r.trigs)
    /\ m_triggers' = r.trigs
    /\ m_number_selected' = r.nsel
    /\ Record(name, x, y, z)
    /\ aborted' = aborted
    /\ ClipUnchanged /\ StacksUnchanged /\ ParentUnchanged

(* The same call, in a build that stops when an iterator leaves the list *)
EditAborts(r) ==
    /\ ~aborted
    /\ r.ub
    /\ aborted' = TRUE
    /\ HistoryUnchanged
    /\ ListUnchanged /\ ClipUnchanged /\ StacksUnchanged /\ ParentUnchanged

ExactSplit(tick) ==
    Edit(exact_split(m_triggers, m_number_selected, tick), "exact_split", tick, 0, 0)

HalfSplit(tick) ==
    Edit(half_split(m_triggers, m_number_selected, tick), "half_split", tick, 0, 0)

SplitTick(tick, snap) ==
    Edit(split_tick(m_triggers, m_number_selected, tick, snap), "split", tick,
         IF snap THEN 1 ELSE 0, 0)

Grow(tickfrom, tickto, len) ==
    Edit(grow(m_triggers, m_number_selected, tickfrom, tickto, len), "grow",
         tickfrom, tickto, len)

GrowAborts(tickfrom, tickto, len) ==
    EditAborts(grow(m_triggers, m_number_selected, tickfrom, tickto, len))

ExactSplitAny == \E tick \in Ticks : ExactSplit(tick)

HalfSplitAny == \E tick \in Ticks : HalfSplit(tick)

SplitTickAny == \E tick \in Ticks, snap \in BOOLEAN : SplitTick(tick, snap)

GrowAny ==
    \E tickfrom \in Ticks, tickto \in Ticks, len \in 1 .. cfg.maxlen :
        Grow(tickfrom, tickto, len)

GrowAbortsAny ==
    \E tickfrom \in Ticks, tickto \in Ticks, len \in 1 .. cfg.maxlen :
        GrowAborts(tickfrom, tickto, len)

SplitMaxTick == 4

SplitMaxTriggers == 2

InitSplit ==
    Constructed(Length, Ppqn,
                Bounds(SplitMaxTick, SplitMaxTriggers, SplitMaxTick + 1, "full"),
                NoOp)

NextSplit == AddAny \/ AddAbortsAny \/ ExactSplitAny

SpecSplit == InitSplit /\ [][NextSplit]_vars

----------------------------------------------------------------------------
(* triggers::move.  The first loop splits, trims and (moving back) erases  *)
(* around the boundary; the iterator is followed by node id across the add *)
(* that split makes.  After an erase i = begin() and the rest of the body  *)
(* runs on that first element, then ++i; when the erase emptied the list   *)
(* the body reads through end() (`ub`).  The second loop shifts.           *)

Straddles(x, tick) == x.ts < tick /\ tick < x.te

MoveErases(x, starttick, endtick, direction) ==
    x.ts >= starttick /\ x.te <= endtick /\ ~direction

MoveSplit(L, n, i, starttick, endtick, direction) ==
    IF Straddles(L[i], starttick)
    THEN split(L, n, i, IF direction THEN starttick ELSE endtick)
    ELSE Unchanged(L, n)

MoveTrim(L, n, i, starttick, direction) ==
    IF Straddles(L[i], starttick)
    THEN IF direction
         THEN split(L, n, i, starttick)
         ELSE [trigs |-> [L EXCEPT ![i].te = starttick - 1], nsel |-> n,
               ub |-> FALSE]
    ELSE Unchanged(L, n)

MoveErase(L, n, i, starttick, endtick, direction) ==
    IF MoveErases(L[i], starttick, endtick, direction)
    THEN [trigs |-> EraseAt(L, i),
          nsel |-> SelectedCountAfterUnselect(L[i], n, TRUE),
          i |-> 1, ub |-> Len(L) = 1]
    ELSE [trigs |-> L, nsel |-> n, i |-> i, ub |-> FALSE]

MoveClip(L, i, endtick, direction) ==
    IF Straddles(L[i], endtick) /\ ~direction
    THEN [L EXCEPT ![i].ts = endtick]
    ELSE L

RECURSIVE MoveLoop1(_, _, _, _, _, _, _)
MoveAfterErase(r, starttick, endtick, direction, ub) ==
    IF r.ub
    THEN [trigs |-> r.trigs, nsel |-> r.nsel, ub |-> TRUE]
    ELSE MoveLoop1(MoveClip(r.trigs, r.i, endtick, direction), r.nsel,
                   r.i + 1, starttick, endtick, direction, ub)

MoveAfterTrim(r, id, starttick, endtick, direction, ub) ==
    MoveAfterErase(MoveErase(r.trigs, r.nsel, IndexOf(r.trigs, id), starttick,
                             endtick, direction),
                   starttick, endtick, direction, ub \/ r.ub)

MoveAfterSplit(r, id, starttick, endtick, direction, ub) ==
    MoveAfterTrim(MoveTrim(r.trigs, r.nsel, IndexOf(r.trigs, id), starttick,
                           direction),
                  id, starttick, endtick, direction, ub \/ r.ub)

MoveLoop1(L, n, i, starttick, endtick, direction, ub) ==
    IF i > Len(L) THEN [trigs |-> L, nsel |-> n, ub |-> ub]
    ELSE MoveAfterSplit(MoveSplit(L, n, i, starttick, endtick, direction),
                        L[i].id, starttick, endtick, direction, ub)

MoveShift(x, starttick, endtick, distance, direction) ==
    LET y == IF direction
             THEN IF x.ts >= starttick
                  THEN [x EXCEPT !.ts = x.ts + distance,
                                 !.te = x.te + distance,
                                 !.off = CRem(x.off + distance, m_length)]
                  ELSE x
             ELSE IF x.ts >= endtick
                  THEN [x EXCEPT !.ts = x.ts - distance,
                                 !.te = x.te - distance,
                                 !.off = CRem(m_length - CRem(distance, m_length),
                                              m_length)]
                  ELSE x
    IN  [y EXCEPT !.off = adjust_offset(y.off)]

move(L, n, starttick, distance, direction) ==
    LET endtick == starttick + distance
        r == MoveLoop1(Tag(L), n, 1, starttick, endtick, direction, FALSE)
    IN  [trigs |-> Untag([k \in 1 .. Len(r.trigs) |->
                            MoveShift(r.trigs[k], starttick, endtick, distance,
                                      direction)]),
         nsel |-> r.nsel, ub |-> r.ub]

----------------------------------------------------------------------------
(* triggers::copy: move forward, then every trigger starting in the moved  *)
(* region gets a copy `distance` earlier, pushed to the front (the scan    *)
(* never meets the copies), and the list is sorted.                        *)

CopyOf_unshifted(x, distance, from_start_tick, from_end_tick) ==
    Trig(x.ts, x.te, x.off, FALSE)

(* the copy taking the offset of the moved trigger as it is *)
CopyOf_moved_offset(x, distance, from_start_tick, from_end_tick) ==
    Trig(x.ts - distance,
         IF x.te <= from_end_tick THEN x.te - distance
         ELSE from_start_tick - 1,
         x.off,
         FALSE)

CopyOf(x, distance, from_start_tick, from_end_tick) ==
    LET o1 == x.off + (m_length - CRem(distance, m_length))
        o2 == CRem(o1, m_length)
    IN  Trig(x.ts - distance,
             IF x.te <= from_end_tick THEN x.te - distance
             ELSE from_start_tick - 1,
             IF o2 < 0 THEN o2 + m_length ELSE o2,
             FALSE)

RECURSIVE CopyLoop(_, _, _, _, _, _)
CopyLoop(L, i, front, distance, from_start_tick, from_end_tick) ==
    IF i > Len(L) THEN front \o L
    ELSE IF L[i].ts >= from_start_tick /\ L[i].ts <= from_end_tick
    THEN CopyLoop(L, i + 1,
                  <<CopyOf(L[i], distance, from_start_tick, from_end_tick)>>
                      \o front,
                  distance, from_start_tick, from_end_tick)
    ELSE CopyLoop(L, i + 1, front, distance, from_start_tick, from_end_tick)

copy(L, n, starttick, distance) ==
    LET from_start_tick == starttick + distance
        from_end_tick == from_start_tick + distance - 1
        r == move(L, n, starttick, distance, TRUE)
    IN  [trigs |-> Sort(CopyLoop(r.trigs, 1, << >>, distance,
                                 from_start_tick, from_end_tick)),
         nsel |-> r.nsel, ub |-> r.ub]

Move(starttick, distance, direction) ==
    Edit(move(m_triggers, m_number_selected, starttick, distance, direction),
         "move", starttick, distance, IF direction THEN 1 ELSE 0)

MoveAborts(starttick, distance, direction) ==
    EditAborts(move(m_triggers, m_number_selected, starttick, distance, direction))

Copy(starttick, distance) ==
    Edit(copy(m_triggers, m_number_selected, starttick, distance),
         "copy", starttick, distance, 0)

Distances == 1 .. cfg.maxlen

MoveAny ==
    \E starttick \in Ticks, distance \in Distances, direction \in BOOLEAN :
        Move(starttick, distance, direction)

MoveAbortsAny ==
    \E starttick \in Ticks, distance \in Distances, direction \in BOOLEAN :
        MoveAborts(starttick, distance, direction)

CopyAny == \E starttick \in Ticks, distance \in Distances : Copy(starttick, distance)

----------------------------------------------------------------------------
(* triggers::copy_selected and triggers::paste *)

ClipLen(c) == c.te - c.ts + 1

PasteAdd_plainoffset(L, n, c, paste_tick) ==
    IF paste_tick = SEQ64_NO_PASTE_TRIGGER
    THEN add(L, n, c.te + 1, ClipLen(c), c.off + ClipLen(c), TRUE)
    ELSE add(L, n, paste_tick, ClipLen(c), c.off, TRUE)

PasteAdd(L, n, c, paste_tick) ==
    IF paste_tick = SEQ64_NO_PASTE_TRIGGER
    THEN add(L, n, c.te + 1, ClipLen(c), c.off + ClipLen(c), TRUE)
    ELSE add(L, n, paste_tick, ClipLen(c), c.off + (paste_tick - c.ts), TRUE)

PasteClipboard_stay(c, paste_tick) == c

PasteClipboard(c, paste_tick) ==
    IF paste_tick = SEQ64_NO_PASTE_TRIGGER
    THEN [c EXCEPT !.ts = c.te + 1,
                   !.te = (c.te + 1) + ClipLen(c) - 1,
                   !.off = adjust_offset(c.off + ClipLen(c))]
    ELSE [c EXCEPT !.ts = paste_tick,
                   !.te = paste_tick + ClipLen(c) - 1,
                   !.off = adjust_offset(c.off + (paste_tick - c.ts))]

CopySelected ==
    /\ ~aborted
    /\ IF FirstSelected(m_triggers) # 0
       THEN /\ m_clipboard' = m_triggers[FirstSelected(m_triggers)]
            /\ m_trigger_copied' = TRUE
       ELSE UNCHANGED << m_clipboard, m_trigger_copied >>
    /\ Record("copy_selected", 0, 0, 0)
    /\ UNCHANGED << m_paste_tick, aborted >>
    /\ ListUnchanged /\ StacksUnchanged /\ ParentUnchanged

Paste(paste_tick) ==
    LET r == PasteAdd(m_triggers, m_number_selected, m_clipboard, paste_tick) IN
    /\ ~aborted
    /\ IF m_trigger_copied
       THEN /\ InBounds(r.trigs)
            /\ InBounds(<< PasteClipboard(m_clipboard, paste_tick) >>)
            /\ m_triggers' = r.trigs
            /\ m_number_selected' = r.nsel
            /\ m_clipboard' = PasteClipboard(m_clipboard, paste_tick)
            /\ m_paste_tick' = IF paste_tick = SEQ64_NO_PASTE_TRIGGER
                               THEN m_paste_tick
                               ELSE SEQ64_NO_PASTE_TRIGGER
       ELSE UNCHANGED << m_triggers, m_number_selected, m_clipboard,
                         m_paste_tick >>
    /\ Record("paste", paste_tick, 0, 0)
    /\ UNCHANGED << m_trigger_copied, aborted >>
    /\ StacksUnchanged /\ ParentUnchanged

PasteAborts(paste_tick) ==
    /\ m_trigger_copied
    /\ EditAborts(PasteAdd(m_triggers, m_number_selected, m_clipboard, paste_tick))

(* set_trigger_paste_tick: the middle click that chooses where the next    *)
(* paste goes.                                                             *)
SetTriggerPasteTick(tick) ==
    /\ ~aborted
    /\ m_paste_tick' = tick
    /\ Record("set_trigger_paste_tick", tick, 0, 0)
    /\ UNCHANGED << m_clipboard, m_trigger_copied, aborted >>
    /\ ListUnchanged /\ StacksUnchanged /\ ParentUnchanged

SetTriggerPasteTickAny == \E tick \in Ticks : SetTriggerPasteTick(tick)

PasteTicks == Ticks \cup {SEQ64_NO_PASTE_TRIGGER}

PasteAny == \E paste_tick \in PasteTicks : Paste(paste_tick)

PasteAbortsAny == \E paste_tick \in PasteTicks : PasteAborts(paste_tick)

----------------------------------------------------------------------------
(* triggers::move_selected: the first selected trigger is moved or resized *)
(* between mintick (one past the previous trigger's end) and maxtick (one  *)
(* before the next trigger's start).                                       *)

GROW_START == "GROW_START"

GROW_END == "GROW_END"

GROW_MOVE == "GROW_MOVE"

MaxTickDefault == 134217727

MoveSelectedDelta(x, tick, which, mintick, maxtick) ==
    IF which = GROW_END
    THEN LET ppqn_start == x.ts + (m_ppqn \div 8)
             d0 == tick - x.te
             d1 == IF d0 > 0 /\ tick > maxtick THEN maxtick - x.te ELSE d0
         IN  IF d1 < 0 /\ d1 + x.te <= ppqn_start
             THEN ppqn_start - x.te ELSE d1
    ELSE IF which = GROW_START
    THEN LET ppqn_end == x.te - (m_ppqn \div 8)
             d0 == tick - x.ts
             d1 == IF d0 < 0 /\ tick < mintick THEN mintick - x.ts ELSE d0
         IN  IF d1 > 0 /\ d1 + x.ts >= ppqn_end
             THEN ppqn_end - x.ts ELSE d1
    ELSE IF which = GROW_MOVE
    THEN LET d0 == tick - x.ts
             d1 == IF d0 < 0 /\ tick < mintick THEN mintick - x.ts ELSE d0
         IN  IF d1 > 0 /\ d1 + x.te > maxtick
             THEN maxtick - x.te ELSE d1
    ELSE 0

(* GROW_MOVE moving the start of the trigger only *)
move_selected_start_only(L, tick, fixoffset, which) ==
    LET i == FirstSelected(L) IN
    IF i = 0 THEN L
    ELSE LET mintick == IF i = 1 THEN 0 ELSE L[i - 1].te + 1
             maxtick == IF i = Len(L) THEN MaxTickDefault ELSE L[i + 1].ts - 1
             d == MoveSelectedDelta(L[i], tick, which, mintick, maxtick)
             x1 == IF which = GROW_START \/ which = GROW_MOVE
                   THEN [L[i] EXCEPT !.ts = L[i].ts + d] ELSE L[i]
             x2 == IF which = GROW_END
                   THEN [x1 EXCEPT !.te = x1.te + d] ELSE x1
             x3 == IF fixoffset
                   THEN [x2 EXCEPT !.off = adjust_offset(x2.off + d)] ELSE x2
         IN  [L EXCEPT ![i] = x3]

move_selected(L, tick, fixoffset, which) ==
    LET i == FirstSelected(L) IN
    IF i = 0 THEN L
    ELSE LET mintick == IF i = 1 THEN 0 ELSE L[i - 1].te + 1
             maxtick == IF i = Len(L) THEN MaxTickDefault ELSE L[i + 1].ts - 1
             d == MoveSelectedDelta(L[i], tick, which, mintick, maxtick)
             x1 == IF which = GROW_START \/ which = GROW_MOVE
                   THEN [L[i] EXCEPT !.ts = L[i].ts + d] ELSE L[i]
             x2 == IF which = GROW_END \/ which = GROW_MOVE
                   THEN [x1 EXCEPT !.te = x1.te + d] ELSE x1
             x3 == IF fixoffset
                   THEN [x2 EXCEPT !.off = adjust_offset(x2.off + d)] ELSE x2
         IN  [L EXCEPT ![i] = x3]

MoveSelected(tick, fixoffset, which) ==
    Edit([trigs |-> move_selected(m_triggers, tick, fixoffset, which),
          nsel |-> m_number_selected, ub |-> FALSE],
         "move_selected", tick, which, IF fixoffset THEN 1 ELSE 0)

MoveSelectedAny ==
    \E tick \in Ticks, fixoffset \in BOOLEAN,
       which \in {GROW_START, GROW_END, GROW_MOVE} :
        MoveSelected(tick, fixoffset, which)

----------------------------------------------------------------------------
(* Undo and redo.  A stack is a sequence whose top is its last element.    *)

Top(S) == S[Len(S)]

Pop(S) == SubSeq(S, 1, Len(S) - 1)

UndoSnapshot_asis(L) == L

(* push_undo: the pushed copy has every trigger unselected, uncounted *)
UndoSnapshot(L) == [k \in 1 .. Len(L) |-> [L[k] EXCEPT !.sel = FALSE]]

PopUndoLive_stale(U, L) == L

(* pop_undo: the live list becomes the top of the undo stack *)
PopUndoLive(U, L) == Top(U)

PopRedoLive_unselected(R, L) ==
    [k \in 1 .. Len(Top(R)) |-> [Top(R)[k] EXCEPT !.sel = FALSE]]

(* pop_redo: the live list becomes the top of the redo stack *)
PopRedoLive(R, L) == Top(R)

PushUndo ==
    /\ ~aborted
    /\ Len(m_undo_stack) + Len(m_redo_stack) < cfg.maxundo
    /\ m_undo_stack' = Append(m_undo_stack, UndoSnapshot(m_triggers))
    /\ undo_pre' = Append(undo_pre, [trigs |-> m_triggers, by |-> "push_undo"])
    /\ Record("push_undo", 0, 0, 0)
    /\ UNCHANGED << m_redo_stack, aborted >>
    /\ ListUnchanged /\ ClipUnchanged /\ ParentUnchanged

(* After pop_undo the history holds, as `pre`, the live list as it was     *)
(* just before the push that made the popped entry, and in last.a whether  *)
(* that push was a push_undo (1) or a pop_redo (0); last.b tells whether   *)
(* the undo stack held anything.  Under the tracking mode "undo" the       *)
(* history is kept for the pair pop_undo, pop_redo instead: `pre` is the   *)
(* state before the pop_undo, and a pop_redo that follows it directly      *)
(* keeps that `pre`, recording in last.a whether the redo stack held       *)
(* anything and in last.b whether it undoes a pop_undo that popped.        *)
PopUndo ==
    /\ ~aborted
    /\ IF Len(m_undo_stack) > 0
       THEN /\ m_redo_stack' = Append(m_redo_stack, m_triggers)
            /\ m_triggers' = PopUndoLive(m_undo_stack, m_triggers)
            /\ m_undo_stack' = Pop(m_undo_stack)
            /\ undo_pre' = Pop(undo_pre)
            /\ last' = Op("pop_undo",
                          IF Top(undo_pre).by = "push_undo" THEN 1 ELSE 0, 1, 0)
            /\ pre' = IF cfg.track = "undo" THEN Snapshot
                      ELSE [trigs |-> Top(undo_pre).trigs, nsel |-> 0]
       ELSE /\ UNCHANGED << m_redo_stack, m_triggers, m_undo_stack, undo_pre >>
            /\ last' = Op("pop_undo", 0, 0, 0)
            /\ pre' = IF cfg.track = "undo" THEN Snapshot ELSE NoSnapshot
    /\ Spent
    /\ UNCHANGED << m_number_selected, aborted >>
    /\ ClipUnchanged /\ ParentUnchanged

PopRedo ==
    /\ ~aborted
    /\ IF Len(m_redo_stack) > 0
       THEN /\ m_undo_stack' = Append(m_undo_stack, m_triggers)
            /\ undo_pre' = Append(undo_pre,
                                   [trigs |-> m_triggers, by |-> "pop_redo"])
            /\ m_triggers' = PopRedoLive(m_redo_stack, m_triggers)
            /\ m_redo_stack' = Pop(m_redo_stack)
       ELSE UNCHANGED << m_redo_stack, m_triggers, m_undo_stack, undo_pre >>
    /\ IF cfg.track = "undo"
       THEN /\ Spent
            /\ last' = Op("pop_redo",
                          IF Len(m_redo_stack) > 0 THEN 1 ELSE 0,
                          IF last.op = "pop_undo" /\ last.b = 1 THEN 1 ELSE 0,
                          0)
            /\ pre' = IF last.op = "pop_undo" THEN pre ELSE Snapshot
       ELSE Record("pop_redo", 0, 0, 0)
    /\ UNCHANGED << m_number_selected, aborted >>
    /\ ClipUnchanged /\ ParentUnchanged

InitUndo ==
    Constructed(Length, Ppqn, Bounds(UndoMaxTick, UndoMaxTick + 1, 1, "none"),
                NoOp)

NextUndo ==
    \/ AddAny
    \/ AddAbortsAny
    \/ SelectAny
    \/ UnselectAll
    \/ RemoveAny
    \/ PushUndo
    \/ PopUndo
    \/ PopRedo

SpecUndo == InitUndo /\ [][NextUndo]_vars

----------------------------------------------------------------------------
(* Every editing operation of the class together *)

EditMaxTick == 3

EditMaxTriggers == 2

MaxEditCalls == 4

InitEdit ==
    Constructed(Length, Ppqn,
                Limited(Bounds(EditMaxTick, EditMaxTriggers, EditMaxTick + 1,
                               "none"),
                        MaxEditCalls),
                NoOp)

NextEdit ==
    \/ AddAny
    \/ AddAbortsAny
    \/ ExactSplitAny
    \/ HalfSplitAny
    \/ SplitTickAny
    \/ GrowAny
    \/ GrowAbortsAny
    \/ MoveAny
    \/ MoveAbortsAny
    \/ CopyAny
    \/ CopySelected
    \/ PasteAny
    \/ PasteAbortsAny
    \/ MoveSelectedAny
    \/ SelectAny
    \/ UnselectAll
    \/ RemoveAny
    \/ RemoveSelected
    \/ PushUndo
    \/ PopUndo
    \/ PopRedo

SpecEdit == InitEdit /\ [][NextEdit]_vars

----------------------------------------------------------------------------
(* triggers::play, built without SEQ64_SONG_RECORDING.  The scan keeps the *)
(* state, tick and offset of the last trigger start or end at or before    *)
(* end_tick, and stops at the first trigger reaching past end_tick.        *)

PlayScan(state, tick, offset) == [state |-> state, tick |-> tick, offset |-> offset]

PlayStarted(x, end_tick) == x.ts <= end_tick

PlayEnded_never(x, end_tick) == FALSE

PlayEnded_past(x, end_tick) == x.te < end_tick

PlayEnded(x, end_tick) == x.te <= end_tick

RECURSIVE PlayLoop(_, _, _, _)
PlayLoop(L, i, end_tick, st) ==
    IF i > Len(L) THEN st
    ELSE LET x == L[i]
             st1 == IF PlayStarted(x, end_tick)
                    THEN PlayScan(TRUE, x.ts, x.off) ELSE st
             st2 == IF PlayEnded(x, end_tick)
                    THEN PlayScan(FALSE, x.te, x.off) ELSE st1
         IN  IF x.ts > end_tick \/ x.te > end_tick
             THEN st2
             ELSE PlayLoop(L, i + 1, end_tick, st2)

PlayStartTick_trigger(trigger_tick, last_tick) == trigger_tick

(* turning on: the start tick passed back *)
PlayStartTick(trigger_tick, last_tick) ==
    IF trigger_tick < last_tick THEN last_tick ELSE trigger_tick

PlayOffplay_never(L, is_playing) == FALSE

(* offplay: no trigger at all and the parent is playing *)
PlayOffplay(L, is_playing) == Len(L) = 0 /\ is_playing

PlayRead_unselected(x) == [x EXCEPT !.sel = FALSE]

(* what a turn of play's loop leaves of the trigger *i: it calls the       *)
(* getters tick_start(), tick_end() and offset() and assigns nothing       *)
PlayRead(x) == x

(* the list after play: nothing is inserted, erased or reordered *)
PlayList(L) == [k \in 1 .. Len(L) |-> PlayRead(L[k])]

play(L, start_tick, end_tick, is_playing, last_tick) ==
    LET st == PlayLoop(L, 1, end_tick, PlayScan(FALSE, 0, 0))
        ok == st.state # is_playing
        on == ok /\ st.state
        off == ok /\ ~st.state
        playing1 == IF on THEN TRUE ELSE is_playing
    IN  [result |-> off,
         start_tick |-> IF on THEN PlayStartTick(st.tick, last_tick)
                        ELSE start_tick,
         end_tick |-> IF off THEN st.tick ELSE end_tick,
         playing |-> IF PlayOffplay(L, playing1) THEN FALSE ELSE playing1,
         trigger_offset |-> st.offset]

PlayLeavesList ==
    /\ m_triggers' = PlayList(m_triggers)
    /\ UNCHANGED m_number_selected

(* The caller of play (the parent sequence, driven by the output driver's  *)
(* clock advance): it clears the playing flag when play returns true and   *)
(* keeps the end tick as the last played tick.  Each slice starts where    *)
(* the previous one ended.                                                 *)
PrevEnd == IF plog = << >> THEN 0 ELSE plog[Len(plog)].e

MaxCalls == 3

PlayMaxTick == 299

PlayMaxTriggers == 2

PlaySliceEnds == {50, 99, 100, 150, 200, 250, 299}

PlayAddArgs == {<<0, 100>>, <<100, 100>>, <<200, 100>>}

(* What the history keeps of one call: its arguments, the parent's state   *)
(* before it (was, lt), and what play passed back.                         *)
PlayEntry(r, start_tick, end_tick) ==
    [s |-> start_tick, e |-> end_tick, was |-> playing, lt |-> m_last_tick,
     ret |-> r.result, so |-> r.start_tick, eo |-> r.end_tick,
     on |-> r.playing]

Play(start_tick, end_tick) ==
    LET r == play(m_triggers, start_tick, end_tick, playing, m_last_tick) IN
    /\ ~aborted
    /\ Len(plog) < MaxCalls
    /\ playing' = IF r.result THEN FALSE ELSE r.playing
    /\ trigger_offset' = r.trigger_offset
    /\ m_last_tick' = r.end_tick
    /\ plog' = Append(plog, PlayEntry(r, start_tick, end_tick))
    /\ UNCHANGED << m_jack_asst, m_length, m_ppqn, aborted >>
    /\ ThreadsUnchanged
    /\ Record("play", start_tick, end_tick, 0)
    /\ PlayLeavesList /\ ClipUnchanged /\ StacksUnchanged

PlaySlice == \E e \in PlaySliceEnds : e > PrevEnd /\ Play(PrevEnd, e)

PlayAdd == \E a \in PlayAddArgs : plog = << >> /\ Add(a[1], a[2], 0)

PlayAddAborts == \E a \in PlayAddArgs : plog = << >> /\ AddAborts(a[1], a[2], 0)

InitPlay ==
    Constructed(Length, Ppqn, Bounds(PlayMaxTick, PlayMaxTriggers, 100, "none"),
                NoOp)

NextPlay == PlayAdd \/ PlayAddAborts \/ PlaySlice

SpecPlay == InitPlay /\ [][NextPlay]_vars

----------------------------------------------------------------------------
(* play while the timeline is being edited: between two slices the list    *)
(* may gain, lose or resize triggers.  The history keeps the last call.    *)

PlayNow(start_tick, end_tick) ==
    LET r == play(m_triggers, start_tick, end_tick, playing, m_last_tick) IN
    /\ ~aborted
    /\ playing' = IF r.result THEN FALSE ELSE r.playing
    /\ trigger_offset' = r.trigger_offset
    /\ m_last_tick' = r.end_tick
    /\ plog' = << PlayEntry(r, start_tick, end_tick) >>
    /\ UNCHANGED << m_jack_asst, m_length, m_ppqn, aborted >>
    /\ ThreadsUnchanged
    /\ Record("play", start_tick, end_tick, 0)
    /\ PlayLeavesList /\ ClipUnchanged /\ StacksUnchanged

PlayNowAny ==
    \E start_tick \in Ticks, end_tick \in Ticks :
        start_tick <= end_tick /\ PlayNow(start_tick, end_tick)

PlayEditMaxTick == 3

PlayEditMaxTriggers == 1

InitPlayEdit ==
    Constructed(Length, Ppqn,
                Bounds(PlayEditMaxTick, PlayEditMaxTriggers, 2, "op"), NoOp)

NextPlayEdit ==
    \/ AddAny
    \/ AddAbortsAny
    \/ RemoveAny
    \/ PlayNowAny

SpecPlayEdit == InitPlayEdit /\ [][NextPlayEdit]_vars

(* The same with a selected trigger resized between two slices *)
PlayResizeMaxTick == 3

PlayResizeMaxTriggers == 2

MaxPlayResizeCalls == 5

InitPlayResize ==
    Constructed(Length, Ppqn,
                Limited(Bounds(PlayResizeMaxTick, PlayResizeMaxTriggers, 1, "op"),
                        MaxPlayResizeCalls),
                NoOp)

NextPlayResize ==
    \/ AddAny
    \/ AddAbortsAny
    \/ SelectAny
    \/ MoveSelectedAny
    \/ PlayNowAny

SpecPlayResize == InitPlayResize /\ [][NextPlayResize]_vars

----------------------------------------------------------------------------
(* adjust_offset on its own: the length and the offset are drawn from      *)
(* bounded sets, and one step applies the function.                        *)

MaxOffset == 9

MaxOffsetLength == 5

OffsetArgs == -MaxOffset .. MaxOffset

OffsetLengths == -1 .. MaxOffsetLength

InitOffset ==
    \E len \in OffsetLengths, o \in OffsetArgs :
        Constructed(len, Ppqn, Bounds(0, 0, 0, "full"), Op("input", o, 0, 0))

AdjustOffset ==
    /\ last.op = "input"
    /\ last' = Op("adjust_offset", last.a, adjust_offset(last.a), 0)
    /\ UNCHANGED << cfg, pre, aborted >>
    /\ ListUnchanged /\ ClipUnchanged /\ StacksUnchanged /\ ParentUnchanged

SpecOffset == InitOffset /\ [][AdjustOffset]_vars

----------------------------------------------------------------------------
(* Predicates on a trigger list *)

Overlap(a, b) == a.ts <= b.te /\ b.ts <= a.te

NonOverlapping(L) ==
    \A i, j \in 1 .. Len(L) : i # j => ~Overlap(L[i], L[j])

WellFormed(L) == \A k \in 1 .. Len(L) : L[k].te >= L[k].ts

Sorted(L) == \A k \in 1 .. Len(L) - 1 : L[k].ts <= L[k + 1].ts

HasInterval(L, s, e) == \E k \in 1 .. Len(L) : L[k].ts = s /\ L[k].te = e

CountInterval(L, s, e) ==
    Cardinality({k \in 1 .. Len(L) : L[k].ts = s /\ L[k].te = e})

Covered(L) ==
    UNION {L[k].ts .. L[k].te : k \in 1 .. Len(L)}

LastAdded == Trig(last.a, last.a + last.b - 1, 0, FALSE)

----------------------------------------------------------------------------
(* C1: starting from an empty timeline, after any sequence of add calls    *)
(* with len >= 1, no two distinct triggers of the timeline overlap.        *)
C1_NonOverlap == NonOverlapping(m_triggers)

(* C2: after any sequence of add calls with len >= 1 every trigger of the  *)
(* timeline has tick_end >= tick_start.                                    *)
C2_WellFormed == WellFormed(m_triggers)

(* C3: the trigger list is in ascending tick_start order after every       *)
(* editing operation (add, split, grow, move, copy, paste, move_selected,  *)
(* remove, pop_undo, pop_redo).                                            *)
C3_SortedAfterEdit == Sorted(m_triggers)

(* C4: when add(tick, len) meets an existing trigger that overlaps the new *)
(* interval only partially (it is not inside the new interval and does not *)
(* contain it), that trigger afterwards covers exactly its former ticks    *)
(* outside the new interval, and the new interval is present as one        *)
(* trigger.                                                                *)
PartialOverlap(x, t) ==
    /\ x.te >= x.ts
    /\ Overlap(x, t)
    /\ ~(x.ts >= t.ts /\ x.te <= t.te)
    /\ ~(x.ts <= t.ts /\ x.te >= t.te)

RemainderStart(x, t) == IF x.ts < t.ts THEN x.ts ELSE t.te + 1

RemainderEnd(x, t) == IF x.ts < t.ts THEN t.ts - 1 ELSE x.te

C4_AddAbsorption ==
    (last.op = "add" /\ NonOverlapping(pre.trigs) /\ WellFormed(pre.trigs)) =>
        \A k \in 1 .. Len(pre.trigs) :
            PartialOverlap(pre.trigs[k], LastAdded) =>
                /\ CountInterval(m_triggers, LastAdded.ts, LastAdded.te) = 1
                /\ HasInterval(m_triggers,
                               RemainderStart(pre.trigs[k], LastAdded),
                               RemainderEnd(pre.trigs[k], LastAdded))
                /\ ~HasInterval(m_triggers, pre.trigs[k].ts, pre.trigs[k].te)

(* C5: split(t, k) on a trigger [a,b] with a < k <= b yields exactly the   *)
(* two triggers [a,k-1] and [k,b] (same offset): the end of the first plus *)
(* 1 is the start of the second, and the set of ticks covered by the       *)
(* timeline is unchanged.                                                  *)
SplitTarget == pre.trigs[FirstBracketing(pre.trigs, last.a)]

SplitApplies ==
    /\ last.op = "exact_split"
    /\ NonOverlapping(pre.trigs) /\ WellFormed(pre.trigs)
    /\ FirstBracketing(pre.trigs, last.a) # 0
    /\ SplitTarget.ts < last.a

C5_SplitReconstruction ==
    SplitApplies =>
        /\ Len(m_triggers) = Len(pre.trigs) + 1
        /\ \E k \in 1 .. Len(m_triggers) - 1 :
              /\ m_triggers[k].ts = SplitTarget.ts
              /\ m_triggers[k].te = last.a - 1
              /\ m_triggers[k + 1].ts = last.a
              /\ m_triggers[k + 1].te = SplitTarget.te
              /\ m_triggers[k].off = SplitTarget.off
              /\ m_triggers[k + 1].off = SplitTarget.off
        /\ Covered(m_triggers) = Covered(pre.trigs)

(* C6: for every integer offset and every content length > 0,              *)
(* adjust_offset(offset) lies in [0, length) and is congruent to offset    *)
(* modulo length; when length <= 0 it returns offset unchanged.            *)
C6_OffsetNormalized ==
    last.op = "adjust_offset" =>
        IF m_length > 0
        THEN /\ last.b \in 0 .. m_length - 1
             /\ \E q \in -(MaxOffset + 1) .. (MaxOffset + 1) :
                    last.b = last.a + q * m_length
        ELSE last.b = last.a

C6_Witness ==
    /\ last.op = "adjust_offset"
    /\ m_length = 4
    /\ last.a = -5
    /\ last.b = 3

(* C7: for any timeline state (including one with selected triggers) and   *)
(* any sequence of edits E, push_undo(); E; pop_undo() leaves the live     *)
(* list equal, field by field (tick_start, tick_end, offset, selected), to *)
(* the list that existed just before push_undo.                            *)
C7_UndoRestoresExactly ==
    (last.op = "pop_undo" /\ last.a = 1) => m_triggers = pre.trigs

(* C7 as amended: the restored list equals the list that existed just      *)
(* before push_undo in tick_start, tick_end and offset, trigger by         *)
(* trigger, and every restored trigger is unselected.                      *)
C7_UndoRestoresUnselected ==
    (last.op = "pop_undo" /\ last.a = 1) =>
        m_triggers = UndoSnapshot(pre.trigs)

C7_Witness ==
    /\ last.op = "pop_undo"
    /\ last.a = 1
    /\ Len(pre.trigs) = 2
    /\ pre.trigs[1].sel
    /\ Len(m_redo_stack) >= 1
    /\ Top(m_redo_stack) # pre.trigs

(* C8: after any sequence of add, select(tick), unselect(tick),            *)
(* unselect(), remove(tick) and remove_selected() calls (no undo or redo)  *)
(* the selected count equals the number of triggers whose selected flag is *)
(* true.                                                                   *)
C8_CountMatchesFlags == m_number_selected = CountSelected(m_triggers)

C8_Witness ==
    /\ last.op = "remove_selected"
    /\ Len(m_triggers) >= 1
    /\ m_number_selected = 1
    /\ CountSelected(m_triggers) = 1

(* C9: in every reachable state of the timeline, including directly after  *)
(* push_undo, pop_undo and pop_redo, the selected count equals the number  *)
(* of triggers in the live list whose selected flag is true.               *)
C9_CountAlwaysMatchesFlags == m_number_selected = CountSelected(m_triggers)

(* C10: for a timeline holding exactly [0,99] and [200,299], a track that  *)
(* starts not playing with last played tick 0, and a caller that clears    *)
(* the playing flag whenever play returns true, the calls play(0,50),      *)
(* play(50,150), play(150,250) in that order leave the track playing after *)
(* the first call, signal turn-off at the end of the first trigger in the  *)
(* second call (track not playing afterwards), and leave the track playing *)
(* again after the third call.                                             *)
ScenarioTimeline ==
    /\ Len(m_triggers) = 2
    /\ m_triggers[1].ts = 0 /\ m_triggers[1].te = 99
    /\ m_triggers[2].ts = 200 /\ m_triggers[2].te = 299

ScenarioCalls == << <<0, 50>>, <<50, 150>>, <<150, 250>> >>

FollowsScenario ==
    /\ ScenarioTimeline
    /\ Len(plog) <= 3
    /\ \A k \in 1 .. Len(plog) :
          plog[k].s = ScenarioCalls[k][1] /\ plog[k].e = ScenarioCalls[k][2]

C10_PlayOnOffOn ==
    FollowsScenario =>
        /\ Len(plog) = 1 => (playing /\ ~plog[1].ret)
        /\ Len(plog) = 2 =>
              (plog[2].ret /\ plog[2].eo = 99 /\ ~playing)
        /\ Len(plog) = 3 => (playing /\ ~plog[3].ret)

C10_Witness ==
    /\ FollowsScenario
    /\ Len(plog) = 3
    /\ playing
    /\ plog[1].on /\ plog[2].ret /\ plog[3].on

(* C11: whenever play(start_tick, end_tick) turns a non-playing track on,  *)
(* the start_tick it passes back equals max(requested start_tick, the      *)
(* track's last played tick) and the playing flag is true.                 *)
LastPlay == plog[Len(plog)]

TurnedOn == last.op = "play" /\ ~LastPlay.was /\ LastPlay.on

C11_StartIsMaxOfRequestAndLast ==
    TurnedOn =>
        /\ LastPlay.so = (IF LastPlay.s < LastPlay.lt THEN LastPlay.lt
                          ELSE LastPlay.s)
        /\ playing

(* C11 as amended: whenever play turns a non-playing track on, the         *)
(* start_tick it passes back equals max(tick_start of the trigger in       *)
(* progress at end_tick, the track's last played tick) and the playing     *)
(* flag is true.                                                           *)
C11_StartIsMaxOfTriggerAndLast ==
    TurnedOn =>
        /\ \E k \in 1 .. Len(m_triggers) :
              /\ m_triggers[k].ts <= LastPlay.e
              /\ LastPlay.e < m_triggers[k].te
              /\ LastPlay.so = (IF m_triggers[k].ts < LastPlay.lt
                                THEN LastPlay.lt ELSE m_triggers[k].ts)
        /\ playing

C11_Witness ==
    /\ TurnedOn
    /\ HasInterval(m_triggers, 2, 3)
    /\ LastPlay.lt = 3
    /\ LastPlay.so = 3
    /\ LastPlay.s = 0

(* C12: if play is called on a timeline with no triggers while the track's *)
(* playing flag is true, the playing flag is false when play returns.      *)
C12_EmptyTimelineForcesOff ==
    (last.op = "play" /\ Len(m_triggers) = 0 /\ LastPlay.was) =>
        (~LastPlay.on /\ ~playing)

C12_Witness ==
    /\ last.op = "play"
    /\ Len(m_triggers) = 0
    /\ LastPlay.was
    /\ ~playing

(* C13: when play runs on a timeline whose triggers are not in tick_start  *)
(* order it makes no state change: the playing flag, start_tick and        *)
(* end_tick are left as they were and play returns false.                  *)
C13_MalformedTimelineIsNoOp ==
    (last.op = "play" /\ ~Sorted(m_triggers)) =>
        /\ LastPlay.on = LastPlay.was
        /\ LastPlay.so = LastPlay.s
        /\ LastPlay.eo = LastPlay.e
        /\ ~LastPlay.ret

----------------------------------------------------------------------------
(* copy on timelines built by add *)

CopyMaxTick == 3

CopyMaxTriggers == 4

CopyMaxLen == 2

CopyLength == 2

MaxCopyCalls == 3

InitCopy ==
    Constructed(CopyLength, Ppqn,
                Limited(Bounds(CopyMaxTick, CopyMaxTriggers, CopyMaxLen, "full"),
                        MaxCopyCalls),
                NoOp)

NextCopy == AddAny \/ AddAbortsAny \/ CopyAny

SpecCopy == InitCopy /\ [][NextCopy]_vars

(* The triggers of L lying inside [s, e] *)
Inside(x, s, e) == s <= x.ts /\ x.ts <= x.te /\ x.te <= e

(* C14: after copy(start_tick, distance) on a non-overlapping timeline     *)
(* with length > 0, every trigger [a,b] that lay inside                    *)
(* [start_tick, start_tick + distance - 1] exists at [a,b] and at          *)
(* [a + distance, b + distance], and the timeline is still                 *)
(* non-overlapping; add(0, length, 0) then copy(0, length) gives exactly   *)
(* [0, length - 1] and [length, 2 * length - 1], the second with offset 0. *)
C14_CopyDuplicatesRegion ==
    (last.op = "copy" /\ m_length > 0 /\ NonOverlapping(pre.trigs)) =>
        /\ \A k \in 1 .. Len(pre.trigs) :
              Inside(pre.trigs[k], last.a, last.a + last.b - 1) =>
                  /\ HasInterval(m_triggers, pre.trigs[k].ts, pre.trigs[k].te)
                  /\ HasInterval(m_triggers, pre.trigs[k].ts + last.b,
                                 pre.trigs[k].te + last.b)
        /\ NonOverlapping(m_triggers)
        /\ (pre.trigs = << Trig(0, m_length - 1, 0, FALSE) >>
                /\ last.a = 0 /\ last.b = m_length) =>
               m_triggers = << Trig(0, m_length - 1, 0, FALSE),
                               Trig(m_length, 2 * m_length - 1, 0, FALSE) >>

C14_Witness ==
    /\ last.op = "copy" /\ last.a = 0 /\ last.b = 2
    /\ pre.trigs = << Trig(0, 0, 0, FALSE), Trig(1, 1, 0, FALSE) >>
    /\ Len(m_triggers) = 4
    /\ HasInterval(m_triggers, 2, 2) /\ HasInterval(m_triggers, 3, 3)

----------------------------------------------------------------------------
(* move on timelines built by add *)

MoveMaxTick == 4

MoveMaxTriggers == 3

MoveMaxLen == 3

MaxMoveCalls == 3

InitMove ==
    Constructed(Length, Ppqn,
                Limited(Bounds(MoveMaxTick, MoveMaxTriggers, MoveMaxLen, "full"),
                        MaxMoveCalls),
                NoOp)

NextMove == AddAny \/ AddAbortsAny \/ MoveAny \/ MoveAbortsAny

SpecMove == InitMove /\ [][NextMove]_vars

(* The timeline before the last call was sorted, without overlap and       *)
(* without degenerate triggers.                                            *)
PreOrdinary ==
    NonOverlapping(pre.trigs) /\ WellFormed(pre.trigs) /\ Sorted(pre.trigs)

(* C15: move(s, d, forward) on a non-overlapping timeline leaves every     *)
(* trigger ending before s unchanged, shifts every trigger starting at or  *)
(* after s by +d with its length unchanged, turns a trigger [a,b] with     *)
(* a < s < b into [a, s-1] and [s+d, b+d], introduces no overlap and loses *)
(* no covered tick.                                                        *)
C15_MoveForward ==
    (last.op = "move" /\ last.c = 1 /\ PreOrdinary) =>
        /\ \A k \in 1 .. Len(pre.trigs) :
              LET x == pre.trigs[k] IN
              /\ x.te < last.a => HasInterval(m_triggers, x.ts, x.te)
              /\ x.ts >= last.a =>
                     HasInterval(m_triggers, x.ts + last.b, x.te + last.b)
              /\ Straddles(x, last.a) =>
                     /\ HasInterval(m_triggers, x.ts, last.a - 1)
                     /\ HasInterval(m_triggers, last.a + last.b, x.te + last.b)
        /\ NonOverlapping(m_triggers)
        /\ Cardinality(Covered(m_triggers)) = Cardinality(Covered(pre.trigs))

(* C16: after move(s, d, backward) every trigger that lay fully inside     *)
(* [s, s+d] is deleted: each trigger of the result is a trigger that ended *)
(* before s, a trimmed straddler, or a trigger from at or after s+d        *)
(* shifted by -d.                                                          *)
C16_MoveBackwardDeletesRegion ==
    (last.op = "move" /\ last.c = 0 /\ PreOrdinary) =>
        \A j \in 1 .. Len(m_triggers) :
            LET y == m_triggers[j]
                s == last.a
                e == last.a + last.b
            IN  \E k \in 1 .. Len(pre.trigs) :
                    LET x == pre.trigs[k] IN
                    \/ x.te < s /\ y.ts = x.ts /\ y.te = x.te
                    \/ x.ts < s /\ s <= x.te /\ y.ts = x.ts /\ y.te <= x.te
                    \/ x.ts < e /\ e < x.te /\ y.ts = s /\ y.te = x.te - last.b
                    \/ x.ts >= e /\ y.ts = x.ts - last.b /\ y.te = x.te - last.b

----------------------------------------------------------------------------
(* move_selected on timelines built by add, with one trigger selected *)

ResizeMaxTick == 3

ResizeMaxTriggers == 2

ResizeMaxLen == 3

MaxResizeCalls == 4

InitResize ==
    Constructed(Length, Ppqn,
                Limited(Bounds(ResizeMaxTick, ResizeMaxTriggers, ResizeMaxLen,
                               "full"),
                        MaxResizeCalls),
                NoOp)

NextResize == AddAny \/ AddAbortsAny \/ SelectAny \/ MoveSelectedAny

SpecResize == InitResize /\ [][NextResize]_vars

(* C17: on a sorted non-overlapping timeline with exactly one selected     *)
(* trigger, after move_selected(tick, fix_offset, mode), for any tick and  *)
(* any mode, the selected trigger still starts after the previous          *)
(* trigger's tick_end and ends before the next trigger's tick_start,       *)
(* whatever its length relative to ppqn / 8.                               *)
C17_MoveSelectedKeepsNeighbours ==
    (last.op = "move_selected" /\ PreOrdinary
        /\ CountSelected(pre.trigs) = 1) =>
        LET i == FirstSelected(pre.trigs) IN
        /\ i > 1 => m_triggers[i].ts > m_triggers[i - 1].te
        /\ i < Len(m_triggers) => m_triggers[i].te < m_triggers[i + 1].ts

----------------------------------------------------------------------------
(* copy_selected and paste on timelines built by add *)

PasteMaxTick == 2

PasteMaxTriggers == 3

PasteMaxLen == 2

MaxPasteCalls == 5

InitPaste ==
    Constructed(Length, Ppqn,
                Limited(Bounds(PasteMaxTick, PasteMaxTriggers, PasteMaxLen,
                               "full"),
                        MaxPasteCalls),
                NoOp)

NextPaste ==
    \/ AddAny
    \/ AddAbortsAny
    \/ SelectAny
    \/ CopySelected
    \/ SetTriggerPasteTickAny
    \/ PasteAny
    \/ PasteAbortsAny

SpecPaste == InitPaste /\ [][NextPaste]_vars

(* C18: copy_selected puts the selected trigger [s,e] on the clipboard;    *)
(* each paste with the no-position sentinel then inserts a trigger of the  *)
(* clipboard's length L directly after the clipboard's bounds, at          *)
(* [ce + 1, ce + L], keeps the trigger pasted before it, and leaves the    *)
(* clipboard's bounds equal to the trigger just pasted, so that k pastes   *)
(* give [e + 1 + (i-1)L, e + iL] for i = 1..k; paste changes nothing when  *)
(* nothing has been copied.                                                *)
C18_ChainedPaste ==
    /\ (last.op = "copy_selected" /\ FirstSelected(m_triggers) # 0) =>
           /\ m_trigger_copied
           /\ m_clipboard = m_triggers[FirstSelected(m_triggers)]
    /\ (last.op = "paste" /\ last.a = SEQ64_NO_PASTE_TRIGGER /\ pre.copied) =>
           LET L == ClipLen(pre.clip) IN
           /\ HasInterval(m_triggers, pre.clip.te + 1, pre.clip.te + L)
           /\ HasInterval(pre.trigs, pre.clip.ts, pre.clip.te) =>
                  HasInterval(m_triggers, pre.clip.ts, pre.clip.te)
           /\ m_clipboard.ts = pre.clip.te + 1
           /\ m_clipboard.te = pre.clip.te + L
    /\ (last.op = "paste" /\ ~pre.copied) =>
           /\ m_triggers = pre.trigs
           /\ m_number_selected = pre.nsel
           /\ m_clipboard = pre.clip
           /\ ~m_trigger_copied
           /\ m_paste_tick = pre.ptick

(* Two chained pastes of the copied trigger [0,0] *)
C18_Witness ==
    /\ last.op = "paste" /\ last.a = SEQ64_NO_PASTE_TRIGGER
    /\ pre.copied /\ pre.clip.ts = 1 /\ pre.clip.te = 1
    /\ Len(m_triggers) = 3
    /\ HasInterval(m_triggers, 0, 0)
    /\ HasInterval(m_triggers, 1, 1)
    /\ HasInterval(m_triggers, 2, 2)
    /\ m_clipboard.ts = 2 /\ m_clipboard.te = 2

(* C19: with a copied trigger of length L and clipboard start cs, paste(t) *)
(* for an explicit tick t inserts a trigger [t, t + L - 1] whose offset is *)
(* adjust_offset(clipboard offset + (t - cs)), relocates the clipboard to  *)
(* [t, t + L - 1] and resets the pending paste tick to the sentinel.       *)
C19_PasteAtTick ==
    (last.op = "paste" /\ last.a # SEQ64_NO_PASTE_TRIGGER /\ pre.copied) =>
        LET L == ClipLen(pre.clip)
            t == last.a
        IN  /\ \E k \in 1 .. Len(m_triggers) :
                   /\ m_triggers[k].ts = t
                   /\ m_triggers[k].te = t + L - 1
                   /\ m_triggers[k].off =
                          adjust_offset(pre.clip.off + (t - pre.clip.ts))
            /\ m_clipboard.ts = t
            /\ m_clipboard.te = t + L - 1
            /\ m_paste_tick = SEQ64_NO_PASTE_TRIGGER

(* The copied trigger [0,0] pasted at the chosen tick 2 *)
C19_Witness ==
    /\ last.op = "paste" /\ last.a = 2
    /\ pre.copied /\ pre.clip.ts = 0 /\ pre.clip.te = 0
    /\ pre.ptick = 2
    /\ HasInterval(m_triggers, 2, 2)
    /\ m_paste_tick = SEQ64_NO_PASTE_TRIGGER

----------------------------------------------------------------------------
(* grow on timelines built by add *)

GrowMaxTick == 3

GrowMaxTriggers == 3

GrowMaxLen == 2

MaxGrowCalls == 3

InitGrow ==
    Constructed(Length, Ppqn,
                Limited(Bounds(GrowMaxTick, GrowMaxTriggers, GrowMaxLen, "full"),
                        MaxGrowCalls),
                NoOp)

NextGrow == AddAny \/ AddAbortsAny \/ GrowAny \/ GrowAbortsAny

SpecGrow == InitGrow /\ [][NextGrow]_vars

(* C20: when a trigger [s,e] brackets `from`, after grow(from, to, len)    *)
(* the timeline holds one trigger spanning exactly                         *)
(* [min(s, to), max(e, to + len - 1)] with the original trigger's offset,  *)
(* the original is no longer a separate trigger and no trigger overlaps    *)
(* the grown one; when no trigger brackets `from` the timeline is          *)
(* unchanged.                                                              *)
C20_Grow ==
    (last.op = "grow" /\ PreOrdinary) =>
        LET i == FirstBracketing(pre.trigs, last.a) IN
        IF i = 0 THEN m_triggers = pre.trigs
        ELSE LET x == pre.trigs[i]
                 gs == IF last.b < x.ts THEN last.b ELSE x.ts
                 ge == IF last.b + last.c - 1 > x.te
                       THEN last.b + last.c - 1 ELSE x.te
                 grown == {k \in 1 .. Len(m_triggers) :
                              m_triggers[k].ts = gs /\ m_triggers[k].te = ge}
             IN  /\ Cardinality(grown) = 1
                 /\ \A k \in grown :
                       /\ m_triggers[k].off = x.off
                       /\ \A j \in 1 .. Len(m_triggers) :
                             j # k => ~Overlap(m_triggers[j], m_triggers[k])
                 /\ (gs # x.ts \/ ge # x.te) =>
                        ~HasInterval(m_triggers, x.ts, x.te)

----------------------------------------------------------------------------
(* add called with a length that is not positive *)

BadMaxTick == 3

BadMaxTriggers == 3

BadMaxLen == 2

MaxBadLen == 1

MaxBadCalls == 3

BadLens == (0 - MaxBadLen) .. 0

AddBadAny ==
    \E tick \in Ticks, len \in BadLens, o \in AddOffsets : Add(tick, len, o)

AddBadAbortsAny ==
    \E tick \in Ticks, len \in BadLens, o \in AddOffsets :
        AddAborts(tick, len, o)

InitBad ==
    Constructed(Length, Ppqn,
                Limited(Bounds(BadMaxTick, BadMaxTriggers, BadMaxLen, "full"),
                        MaxBadCalls),
                NoOp)

NextBad == AddAny \/ AddAbortsAny \/ AddBadAny \/ AddBadAbortsAny

SpecBad == InitBad /\ [][NextBad]_vars

(* C21: add(tick, len, offset) with len <= 0 leaves the trigger list, the  *)
(* selected count and the undo and redo stacks exactly as they were.       *)
C21_BadAddRejected ==
    (last.op = "add" /\ last.b <= 0) =>
        /\ m_triggers = pre.trigs
        /\ m_number_selected = pre.nsel
        /\ m_undo_stack = << >>
        /\ m_redo_stack = << >>

----------------------------------------------------------------------------
(* Loading a timeline: the stored records (tick_start, tick_end, offset),  *)
(* sorted, without overlap, tick_end >= tick_start and the offset in       *)
(* [0, length), are added in tick order to an empty timeline.              *)

LoadMaxTick == 4

LoadMaxTriggers == 3

LoadMaxLen == 2

(* The next record starts after everything already loaded *)
AddRecord(tick, len, offset) ==
    /\ \A k \in 1 .. Len(m_triggers) : m_triggers[k].te < tick
    /\ Add(tick, len, offset)

AddRecordAny ==
    \E a \in AddArgs, o \in 0 .. m_length - 1 : AddRecord(a[1], a[2], o)

InitLoad ==
    Constructed(Length, Ppqn,
                Bounds(LoadMaxTick, LoadMaxTriggers, LoadMaxLen, "full"), NoOp)

SpecLoad == InitLoad /\ [][AddRecordAny]_vars

(* C22: adding each record of a sorted, non-overlapping list, in tick      *)
(* order, to an empty timeline gives a timeline whose triggers equal the   *)
(* records one for one: each add appends exactly its record and leaves     *)
(* the triggers loaded before it as they were.                             *)
C22_LoadRoundTrip ==
    /\ last.op = "add" =>
           m_triggers = Append(pre.trigs,
                               Trig(last.a, last.a + last.b - 1, last.c, FALSE))
    /\ Sorted(m_triggers) /\ NonOverlapping(m_triggers) /\ WellFormed(m_triggers)

(* Three records with their offsets *)
C22_Witness ==
    m_triggers = << Trig(0, 0, 1, FALSE), Trig(1, 2, 3, FALSE),
                    Trig(3, 4, 2, FALSE) >>

----------------------------------------------------------------------------
(* The control thread and the output driver on one timeline.  The parent   *)
(* sequence holds its mutex around each edit and around each play call.    *)
(* add is taken in two steps, the reconciliation loop and then push_front  *)
(* and sort; play in two steps, its entry and then its scan and outcome.   *)

MutexFree_always(m) == TRUE

MutexFree(m) == m = "free"

Release(holder) == IF m_mutex = holder THEN "free" ELSE m_mutex

SyncMaxTick == 2

SyncMaxTriggers == 2

SyncMaxLen == 2

MaxSyncCalls == 4

(* add, up to the end of its loop *)
LockedAddBegin(tick, len, offset) ==
    LET t == Trig(tick, tick + len - 1, adjust_offset(offset), FALSE)
        r == AddLoop(m_triggers, 1, m_number_selected, t, FALSE)
    IN  /\ ~aborted
        /\ editing = << >>
        /\ MutexFree(m_mutex)
        /\ InBounds(Sort(PushFront(r.trigs, t)))
        /\ m_mutex' = "edit"
        /\ m_triggers' = r.trigs
        /\ m_number_selected' = r.nsel
        /\ editing' = << t >>
        /\ Spent
        /\ UNCHANGED << last, pre, scanning, aborted >>
        /\ UNCHANGED << m_jack_asst, m_length, m_ppqn, playing, m_last_tick, trigger_offset,
                        plog >>
        /\ ClipUnchanged /\ StacksUnchanged

(* add's push_front and sort, and the return to the caller *)
LockedAddEnd ==
    /\ ~aborted
    /\ editing # << >>
    /\ m_triggers' = Sort(PushFront(m_triggers, editing[1]))
    /\ editing' = << >>
    /\ m_mutex' = Release("edit")
    /\ UNCHANGED << m_number_selected, scanning, aborted >>
    /\ UNCHANGED << m_jack_asst, m_length, m_ppqn, playing, m_last_tick, trigger_offset,
                    plog >>
    /\ HistoryUnchanged /\ ClipUnchanged /\ StacksUnchanged

(* play is entered *)
LockedPlayBegin(start_tick, end_tick) ==
    /\ ~aborted
    /\ scanning = << >>
    /\ MutexFree(m_mutex)
    /\ m_mutex' = "play"
    /\ scanning' = << [s |-> start_tick, e |-> end_tick, seen |-> m_triggers] >>
    /\ Spent
    /\ UNCHANGED << last, pre, editing, aborted >>
    /\ UNCHANGED << m_jack_asst, m_length, m_ppqn, playing, m_last_tick, trigger_offset,
                    plog >>
    /\ ListUnchanged /\ ClipUnchanged /\ StacksUnchanged

(* play scans the list, acts on the parent and returns *)
LockedPlayEnd ==
    LET r == play(m_triggers, scanning[1].s, scanning[1].e, playing,
                  m_last_tick)
    IN  /\ ~aborted
        /\ scanning # << >>
        /\ playing' = IF r.result THEN FALSE ELSE r.playing
        /\ trigger_offset' = r.trigger_offset
        /\ m_last_tick' = r.end_tick
        /\ plog' = << PlayEntry(r, scanning[1].s, scanning[1].e) >>
        /\ scanning' = << >>
        /\ m_mutex' = Release("play")
        /\ UNCHANGED << m_jack_asst, m_length, m_ppqn, editing, aborted >>
        /\ HistoryUnchanged
        /\ PlayLeavesList /\ ClipUnchanged /\ StacksUnchanged

LockedAddBeginAny ==
    \E a \in AddArgs, o \in AddOffsets : LockedAddBegin(a[1], a[2], o)

LockedPlayBeginAny ==
    \E start_tick \in Ticks, end_tick \in Ticks :
        start_tick <= end_tick /\ LockedPlayBegin(start_tick, end_tick)

InitSync ==
    Constructed(Length, Ppqn,
                Limited(Bounds(SyncMaxTick, SyncMaxTriggers, SyncMaxLen, "none"),
                        MaxSyncCalls),
                NoOp)

NextSync ==
    \/ LockedAddBeginAny
    \/ LockedAddEnd
    \/ LockedPlayBeginAny
    \/ LockedPlayEnd

SpecSync == InitSync /\ [][NextSync]_vars

(* C23: an edit and play issued concurrently on one timeline exclude each  *)
(* other: while play is inside its call no edit is between its steps and   *)
(* the list is the one play began on, so play sees the list entirely       *)
(* before or entirely after the edit, never with add's neighbours trimmed  *)
(* or erased and the new trigger not yet inserted.                         *)
C23_PlayExcludesEdit ==
    scanning # << >> =>
        /\ editing = << >>
        /\ m_triggers = scanning[1].seen

(* play is inside its call on a list that an earlier add trimmed, and an   *)
(* earlier play has completed                                              *)
C23_Witness ==
    /\ scanning # << >>
    /\ m_mutex = "play"
    /\ plog # << >>
    /\ m_triggers = << Trig(0, 0, 0, FALSE), Trig(1, 2, 0, FALSE) >>

----------------------------------------------------------------------------
(* C24: after add(tick, len) with len >= 1, no trigger that existed before *)
(* the call and lay fully inside [tick, tick + len - 1] remains in the     *)
(* timeline, however many there were and wherever they stood in the list:  *)
(* the only trigger on such an interval is the new one, when it is the     *)
(* new interval itself.                                                    *)
C24_AddDeletesContained ==
    (last.op = "add" /\ last.b >= 1 /\ PreOrdinary) =>
        \A k \in 1 .. Len(pre.trigs) :
            LET x == pre.trigs[k] IN
            Inside(x, LastAdded.ts, LastAdded.te) =>
                CountInterval(m_triggers, x.ts, x.te) =
                    IF x.ts = LastAdded.ts /\ x.te = LastAdded.te THEN 1 ELSE 0

----------------------------------------------------------------------------
(* C25: whenever play(start_tick, end_tick) returns true, the end_tick it  *)
(* passes back is the tick_end of a trigger of the timeline and is <= the  *)
(* requested end_tick, also when the track is playing and no trigger has   *)
(* started by end_tick or the timeline is empty.                           *)
C25_TurnOffEndTick ==
    (last.op = "play" /\ LastPlay.ret) =>
        /\ LastPlay.eo <= LastPlay.e
        /\ \E k \in 1 .. Len(m_triggers) : m_triggers[k].te = LastPlay.eo

----------------------------------------------------------------------------
(* C26: for length > 0 and every trigger that move(s, d, direction)        *)
(* shifts, forward or backward, (tick_start - offset) mod length is the    *)
(* same after the move as before it.                                       *)
MoveSigned == IF last.c = 1 THEN last.b ELSE 0 - last.b

MoveShifts(x) ==
    IF last.c = 1 THEN x.ts >= last.a
    ELSE x.ts >= last.a + last.b /\ x.te > last.a + last.b

C26_MoveKeepsAlignment ==
    (last.op = "move" /\ m_length > 0 /\ PreOrdinary) =>
        \A j \in 1 .. Len(pre.trigs) :
            LET x == pre.trigs[j] IN
            MoveShifts(x) =>
                \A k \in 1 .. Len(m_triggers) :
                    LET y == m_triggers[k] IN
                    (y.ts = x.ts + MoveSigned /\ y.te = x.te + MoveSigned) =>
                        (y.ts - y.off) % m_length = (x.ts - x.off) % m_length

----------------------------------------------------------------------------
(* push_undo among selections and pop_undo *)

FrameMaxTick == 1

FrameMaxTriggers == 2

FrameMaxLen == 1

FrameMaxUndo == 2

MaxFrameCalls == 5

InitFrame ==
    Constructed(Length, Ppqn,
                Limited(WithUndo(Bounds(FrameMaxTick, FrameMaxTriggers,
                                        FrameMaxLen, "full"),
                                 FrameMaxUndo),
                        MaxFrameCalls),
                NoOp)

NextFrame ==
    \/ AddAny
    \/ AddAbortsAny
    \/ SelectAny
    \/ PushUndo
    \/ PopUndo

SpecFrame == InitFrame /\ [][NextFrame]_vars

(* C27: push_undo pushes onto the undo stack a copy of the live list in    *)
(* which every trigger is unselected, and leaves the live list with its    *)
(* selected flags, the selected count, the redo stack and the clipboard    *)
(* unchanged; a push_undo after a pop_undo does not clear or shorten the   *)
(* redo stack.                                                             *)
C27_PushUndoFrame ==
    last.op = "push_undo" =>
        /\ Len(m_undo_stack) = Len(pre.undo) + 1
        /\ SubSeq(m_undo_stack, 1, Len(pre.undo)) = pre.undo
        /\ Len(Top(m_undo_stack)) = Len(pre.trigs)
        /\ \A k \in 1 .. Len(pre.trigs) :
              Top(m_undo_stack)[k] = [pre.trigs[k] EXCEPT !.sel = FALSE]
        /\ m_triggers = pre.trigs
        /\ m_number_selected = pre.nsel
        /\ m_redo_stack = pre.redo
        /\ m_clipboard = pre.clip
        /\ m_trigger_copied = pre.copied

(* A push_undo after a pop_undo, with a selected trigger in the live list *)
C27_Witness ==
    /\ last.op = "push_undo"
    /\ Len(m_redo_stack) = 1
    /\ Len(m_undo_stack) = 1
    /\ \E k \in 1 .. Len(m_triggers) : m_triggers[k].sel

----------------------------------------------------------------------------
----------------------------------------------------------------------------
(* half_split and exact_split on timelines built by add *)

HalfMaxTick == 4

HalfMaxTriggers == 2

HalfMaxLen == 4

MaxHalfCalls == 3

ExactSplitAborts(tick) ==
    EditAborts(exact_split(m_triggers, m_number_selected, tick))

ExactSplitAbortsAny == \E tick \in Ticks : ExactSplitAborts(tick)

InitHalf ==
    Constructed(Length, Ppqn,
                Limited(Bounds(HalfMaxTick, HalfMaxTriggers, HalfMaxLen, "full"),
                        MaxHalfCalls),
                NoOp)

NextHalf ==
    \/ AddAny
    \/ AddAbortsAny
    \/ HalfSplitAny
    \/ ExactSplitAny
    \/ ExactSplitAbortsAny

SpecHalf == InitHalf /\ [][NextHalf]_vars

(* The trigger x of the earlier list has been split at tick m: the part    *)
(* before m is a trigger of its own, and the list holds nothing but that   *)
(* part, the part from m on, and the other triggers as they were.          *)
SplitAt(x, m) ==
    /\ x.ts < m => HasInterval(m_triggers, x.ts, m - 1)
    /\ \A k \in 1 .. Len(m_triggers) :
          LET y == m_triggers[k] IN
          \/ y.ts = x.ts /\ y.te = m - 1
          \/ y.ts = m /\ y.te = x.te
          \/ \E j \in 1 .. Len(pre.trigs) :
                 pre.trigs[j] # x /\ y.ts = pre.trigs[j].ts
                                  /\ y.te = pre.trigs[j].te

----------------------------------------------------------------------------
(* The transport bridge's tick multiplier *)

JackMaxPpqn == 4

JackMaxTicksPerBeat == 3

JackMaxBeatType == 3

RECURSIVE Gcd(_, _)
Gcd(a, b) == IF b = 0 THEN a ELSE Gcd(b, a % b)

(* the quotient num / den of two positive numbers, in lowest terms *)
Ratio(num, den) ==
    [num |-> num \div Gcd(num, den), den |-> den \div Gcd(num, den)]

(* the multiplier computed from the PPQN recorded at construction *)
tick_multiplier_at_construction(j) ==
    Ratio(4 * Ppqn, j.m_jack_pos.ticks_per_beat * j.m_jack_pos.beat_type)

(* denom = ticks_per_beat * beat_type / 4.0; return double(m_ppqn) / denom *)
tick_multiplier(j) ==
    Ratio(4 * j.m_ppqn, j.m_jack_pos.ticks_per_beat * j.m_jack_pos.beat_type)

BridgeOnly ==
    /\ UNCHANGED << m_length, m_ppqn, playing, m_last_tick, trigger_offset,
                    plog, aborted, cfg, pre >>
    /\ UNCHANGED << m_mutex, editing, scanning >>
    /\ ListUnchanged /\ ClipUnchanged /\ StacksUnchanged

set_ppqn(ppqn) ==
    /\ m_jack_asst' = [m_jack_asst EXCEPT !.m_ppqn = ppqn]
    /\ last' = Op("set_ppqn", ppqn, 0, 0)
    /\ BridgeOnly

(* the transport's position is read into m_jack_pos *)
PositionUpdate(ticks_per_beat, beat_type) ==
    /\ m_jack_asst' =
           [m_jack_asst EXCEPT !.m_jack_pos.ticks_per_beat = ticks_per_beat,
                               !.m_jack_pos.beat_type = beat_type]
    /\ last' = Op("position", ticks_per_beat, beat_type, 0)
    /\ BridgeOnly

(* a conversion calls tick_multiplier(); the value it gets is recorded *)
TickMultiplierCall ==
    LET r == tick_multiplier(m_jack_asst)
    IN  /\ last' = Op("tick_multiplier", r.num, r.den, 0)
        /\ UNCHANGED m_jack_asst
        /\ BridgeOnly

SetPpqnAny == \E ppqn \in 1 .. JackMaxPpqn : set_ppqn(ppqn)

PositionUpdateAny ==
    \E ticks_per_beat \in 1 .. JackMaxTicksPerBeat,
       beat_type \in 1 .. JackMaxBeatType :
        PositionUpdate(ticks_per_beat, beat_type)

InitBridge ==
    Constructed(Length, Ppqn, Bounds(MaxTick, MaxTriggers, MaxTick + 1, "op"),
                NoOp)

NextBridge == SetPpqnAny \/ PositionUpdateAny \/ TickMultiplierCall

SpecBridge == InitBridge /\ [][NextBridge]_vars

(* C30: every call of tick_multiplier() yields PPQN / (ticks_per_beat *    *)
(* beat_type / 4) of the position structure and the PPQN as they are at    *)
(* the call, so the conversion after a set_ppqn or a position update uses  *)
(* the new values.                                                         *)
C30_TickMultiplierCurrent ==
    last.op = "tick_multiplier" =>
        last.a * (m_jack_asst.m_jack_pos.ticks_per_beat
                     * m_jack_asst.m_jack_pos.beat_type)
            = last.b * (4 * m_jack_asst.m_ppqn)

(* after set_ppqn(2) and a position update to 3 ticks per beat of beat     *)
(* type 2, the conversion gets 2 / (3 * 2 / 4) = 4/3                       *)
C30_Witness ==
    /\ last.op = "tick_multiplier"
    /\ m_jack_asst = JackAssistant(2, 3, 2)
    /\ last.a = 4
    /\ last.b = 3

----------------------------------------------------------------------------
(* The selected count against the flags held in the live list and in the   *)
(* saved lists of both stacks                                              *)

RECURSIVE StackSelected(_)
StackSelected(S) ==
    IF S = << >> THEN 0
    ELSE CountSelected(Head(S)) + StackSelected(Tail(S))

(* C31: in every state reached through the editing operations and          *)
(* push_undo, pop_undo and pop_redo, the selected count equals the number  *)
(* of selected triggers in the live list plus the number of selected       *)
(* triggers held in all undo and redo snapshots.                           *)
C31_CountCoversSnapshots ==
    ~aborted =>
        m_number_selected = CountSelected(m_triggers)
                              + StackSelected(m_undo_stack)
                              + StackSelected(m_redo_stack)


AccountMaxTick == 1

AccountMaxTriggers == 2

AccountMaxLen == 1

AccountMaxUndo == 2

MaxAccountCalls == 4

InitAccount ==
    Constructed(Length, Ppqn,
                Limited(WithUndo(Bounds(AccountMaxTick, AccountMaxTriggers,
                                        AccountMaxLen, "none"),
                                 AccountMaxUndo),
                        MaxAccountCalls),
                NoOp)

NextAccount ==
    \/ AddAny
    \/ AddAbortsAny
    \/ RemoveAny
    \/ RemoveSelected
    \/ SelectAny
    \/ UnselectTickAny
    \/ UnselectAll
    \/ ExactSplitAny
    \/ HalfSplitAny
    \/ SplitTickAny
    \/ GrowAny
    \/ GrowAbortsAny
    \/ MoveAny
    \/ MoveAbortsAny
    \/ CopyAny
    \/ CopySelected
    \/ PasteAny
    \/ PasteAbortsAny
    \/ PushUndo
    \/ PopUndo
    \/ PopRedo

SpecAccount == InitAccount /\ [][NextAccount]_vars

(* select, push_undo, pop_undo: the selected flag sits in the redo stack,  *)
(* the live list has none, and the count still counts it                   *)
C31_Witness ==
    /\ ~aborted
    /\ m_number_selected = 1
    /\ CountSelected(m_triggers) = 0
    /\ StackSelected(m_redo_stack) = 1
    /\ Len(m_triggers) = 1

----------------------------------------------------------------------------
(* pop_undo followed directly by pop_redo *)

RedoMaxTick == 1

RedoMaxTriggers == 2

RedoMaxLen == 1

RedoMaxUndo == 2

MaxRedoCalls == 5

InitRedo ==
    Constructed(Length, Ppqn,
                Limited(WithUndo(Bounds(RedoMaxTick, RedoMaxTriggers,
                                        RedoMaxLen, "undo"),
                                 RedoMaxUndo),
                        MaxRedoCalls),
                NoOp)

NextRedo ==
    \/ AddAny
    \/ AddAbortsAny
    \/ SelectAny
    \/ PushUndo
    \/ PopUndo
    \/ PopRedo

SpecRedo == InitRedo /\ [][NextRedo]_vars

(* the live list and both stacks are as the history recorded them *)
AsBefore ==
    /\ m_triggers = pre.trigs
    /\ m_undo_stack = pre.undo
    /\ m_redo_stack = pre.redo

(* C32: when the undo stack is non-empty, pop_undo followed immediately by *)
(* pop_redo restores the live list (selected flags included), the undo     *)
(* stack and the redo stack to their contents before the pop_undo;         *)
(* pop_undo on an empty undo stack and pop_redo on an empty redo stack     *)
(* change nothing.                                                         *)
C32_UndoThenRedoIsIdentity ==
    /\ (last.op = "pop_redo" /\ last.b = 1) => AsBefore
    /\ (last.op = "pop_undo" /\ last.b = 0) => AsBefore
    /\ (last.op = "pop_redo" /\ last.a = 0) => AsBefore

(* add, select, push_undo, pop_undo, pop_redo: the selected trigger is     *)
(* live again, above the unselected copy push_undo saved                   *)
C32_Witness ==
    /\ last.op = "pop_redo" /\ last.b = 1
    /\ CountSelected(m_triggers) = 1
    /\ Len(m_undo_stack) = 1
    /\ CountSelected(Top(m_undo_stack)) = 0
    /\ m_redo_stack = << >>

----------------------------------------------------------------------------
(* play on a timeline with a selection, a clipboard and a saved list *)

ReadMaxTick == 1

ReadMaxTriggers == 1

ReadMaxLen == 2

MaxReadCalls == 5

InitRead ==
    Constructed(Length, Ppqn,
                Limited(Bounds(ReadMaxTick, ReadMaxTriggers, ReadMaxLen, "full"),
                        MaxReadCalls),
                NoOp)

NextRead ==
    \/ AddAny
    \/ AddAbortsAny
    \/ SelectAny
    \/ CopySelected
    \/ PushUndo
    \/ PlayNowAny

SpecRead == InitRead /\ [][NextRead]_vars

(* C33: a play(start_tick, end_tick) call never changes the trigger list   *)
(* (bounds, offsets, selected flags, order), the selected count, the       *)
(* clipboard, the paste tick or the undo and redo stacks; what it changes  *)
(* is the track's playing flag and trigger offset and its two arguments.   *)
C33_PlayReadsOnly ==
    last.op = "play" =>
        /\ m_triggers = pre.trigs
        /\ m_number_selected = pre.nsel
        /\ m_clipboard = pre.clip
        /\ m_trigger_copied = pre.copied
        /\ m_paste_tick = pre.ptick
        /\ m_undo_stack = pre.undo
        /\ m_redo_stack = pre.redo
        /\ m_length = Length
        /\ m_ppqn = Ppqn

(* play(0, 0) turned the track on over a selected, copied and saved [0,1] *)
C33_Witness ==
    /\ last.op = "play"
    /\ playing
    /\ m_triggers = << Trig(0, 1, 0, TRUE) >>
    /\ m_number_selected = 1
    /\ m_trigger_copied
    /\ Len(m_undo_stack) = 1

----------------------------------------------------------------------------
(* The state play computes, against get_state and intersect *)

(* get_state(tick): some trigger has tick_start <= tick <= tick_end *)
get_state(L, tick) == \E k \in 1 .. Len(L) : Brackets(L[k], tick)

(* intersect(position): the same test, on the first trigger that meets it *)
intersect(L, position) == FirstBracketing(L, position) # 0

StateMaxTick == 3

StateMaxTriggers == 2

StateMaxLen == 2

MaxStateCalls == 4

InitState ==
    Constructed(Length, Ppqn,
                Limited(Bounds(StateMaxTick, StateMaxTriggers, StateMaxLen,
                               "op"),
                        MaxStateCalls),
                NoOp)

NextState == AddAny \/ AddAbortsAny \/ PlayNowAny

SpecState == InitState /\ [][NextState]_vars

(* trigger_state at the end of the last call's scan, read off what the     *)
(* call did: a playing track is turned off (play returns true) exactly     *)
(* when the state is off, a silent one is turned on exactly when it is on  *)
PlayedState == IF plog[1].was THEN ~plog[1].ret ELSE plog[1].on

JustPlayed == last.op = "play" /\ plog # << >> /\ ~aborted

(* C34: on a sorted non-overlapping timeline the state play(start_tick,    *)
(* end_tick) computes is on exactly when some trigger has tick_start <=    *)
(* end_tick < tick_end; so at end_tick equal to a trigger's tick_end the   *)
(* state is off although get_state(end_tick) and intersect(end_tick)       *)
(* report that tick as inside the trigger.                                 *)
C34_PlayStateClosedForm ==
    (JustPlayed /\ Sorted(m_triggers) /\ NonOverlapping(m_triggers)) =>
        /\ PlayedState <=>
               \E k \in 1 .. Len(m_triggers) :
                   /\ m_triggers[k].ts <= plog[1].e
                   /\ plog[1].e < m_triggers[k].te
        /\ \A k \in 1 .. Len(m_triggers) :
               (m_triggers[k].ts <= m_triggers[k].te
                   /\ m_triggers[k].te = plog[1].e) =>
                   /\ ~PlayedState
                   /\ get_state(m_triggers, plog[1].e)
                   /\ intersect(m_triggers, plog[1].e)

(* a playing track over [0,1] and [2,3]: play(0, 1) turns it off at tick   *)
(* 1, the last tick of [0,1]                                               *)
C34_Witness ==
    /\ JustPlayed
    /\ HasInterval(m_triggers, 0, 1) /\ HasInterval(m_triggers, 2, 3)
    /\ plog[1].e = 1 /\ plog[1].was /\ plog[1].ret
    /\ get_state(m_triggers, 1)

----------------------------------------------------------------------------
(* move_selected in the mode GROW_MOVE *)

GrowMoved == last.op = "move_selected" /\ last.b = GROW_MOVE

(* C35: move_selected(tick, fix_offset, GROW_MOVE) changes the first       *)
(* selected trigger's tick_start and tick_end by the same delta, so its    *)
(* length is unchanged for every tick, also when a neighbour clamps the    *)
(* move; every unselected trigger and every selected trigger after the     *)
(* first selected one is left unchanged.                                   *)
C35_GrowMoveKeepsLength ==
    GrowMoved =>
        /\ Len(m_triggers) = Len(pre.trigs)
        /\ \A k \in 1 .. Len(pre.trigs) :
              IF k = FirstSelected(pre.trigs)
              THEN /\ m_triggers[k].te - m_triggers[k].ts
                          = pre.trigs[k].te - pre.trigs[k].ts
                   /\ m_triggers[k].ts - pre.trigs[k].ts
                          = m_triggers[k].te - pre.trigs[k].te
                   /\ m_triggers[k].sel
              ELSE m_triggers[k] = pre.trigs[k]

(* [0,1] selected before [3,3]: moved to tick 3 it is stopped at [1,2] *)
C35_Witness ==
    /\ GrowMoved
    /\ last.a = 3
    /\ Len(pre.trigs) = 2
    /\ pre.trigs[1] = Trig(0, 1, 0, TRUE) /\ pre.trigs[2] = Trig(3, 3, 0, FALSE)
    /\ m_triggers[1].ts = 1 /\ m_triggers[1].te = 2

----------------------------------------------------------------------------
(* add on timelines that hold selected triggers *)

KeepMaxTick == 3

KeepMaxTriggers == 3

KeepMaxLen == 3

MaxKeepCalls == 4

InitKeep ==
    Constructed(Length, Ppqn,
                Limited(Bounds(KeepMaxTick, KeepMaxTriggers, KeepMaxLen, "full"),
                        MaxKeepCalls),
                NoOp)

NextKeep == AddAny \/ AddAbortsAny \/ SelectAny

SpecKeep == InitKeep /\ [][NextKeep]_vars

(* some tick lies both in the trigger x and in [s, e] *)
SharesTick(x, s, e) ==
    \E tick \in -1 .. cfg.maxtick + 1 :
        x.ts <= tick /\ tick <= x.te /\ s <= tick /\ tick <= e

(* C36: add(tick, len) with len >= 1 leaves unchanged (bounds, offset,     *)
(* selected flag) every existing trigger that shares no tick with          *)
(* [tick, tick+len-1], and changes the selected count only by the number   *)
(* of selected triggers it erases.                                         *)
C36_AddFrame ==
    (last.op = "add" /\ ~aborted) =>
        /\ \A k \in 1 .. Len(pre.trigs) :
              ~SharesTick(pre.trigs[k], last.a, last.a + last.b - 1) =>
                  \E j \in 1 .. Len(m_triggers) : m_triggers[j] = pre.trigs[k]
        /\ m_number_selected
               = pre.nsel - (CountSelected(pre.trigs) - CountSelected(m_triggers))

----------------------------------------------------------------------------
(* copy on timelines whose triggers carry offsets *)

ShiftMaxTick == 2

ShiftMaxTriggers == 4

ShiftMaxLen == 2

ShiftLength == 2

MaxShiftCalls == 2

AddWithOffsetAny ==
    \E a \in AddArgs, o \in 0 .. m_length - 1 : Add(a[1], a[2], o)

AddWithOffsetAbortsAny ==
    \E a \in AddArgs, o \in 0 .. m_length - 1 : AddAborts(a[1], a[2], o)

InitShift ==
    Constructed(ShiftLength, Ppqn,
                Limited(Bounds(ShiftMaxTick, ShiftMaxTriggers, ShiftMaxLen,
                               "full"),
                        MaxShiftCalls),
                NoOp)

NextShift == AddWithOffsetAny \/ AddWithOffsetAbortsAny \/ CopyAny

SpecShift == InitShift /\ [][NextShift]_vars

(* the list holds a trigger [s, e], and every such trigger has offset o *)
HasOffsetAt(L, s, e, o) ==
    /\ \E k \in 1 .. Len(L) : L[k].ts = s /\ L[k].te = e
    /\ \A k \in 1 .. Len(L) : (L[k].ts = s /\ L[k].te = e) => L[k].off = o

(* C37: for length > 0 and a trigger with offset o in [0, length) lying in *)
(* the copied region, after copy(start_tick, distance) the duplicate left  *)
(* at the original position has offset o and the trigger shifted by        *)
(* distance has offset (o + distance) mod length.                          *)
C37_CopyKeepsOffset ==
    (last.op = "copy" /\ m_length > 0 /\ PreOrdinary) =>
        \A k \in 1 .. Len(pre.trigs) :
            LET x == pre.trigs[k] IN
            (Inside(x, last.a, last.a + last.b - 1)
                /\ x.off \in 0 .. m_length - 1) =>
                /\ HasOffsetAt(m_triggers, x.ts, x.te, x.off)
                /\ HasOffsetAt(m_triggers, x.ts + last.b, x.te + last.b,
                               (x.off + last.b) % m_length)

(* [0,0] with offset 1 copied by 1 on a content length of 2: the copy at   *)
(* [0,0] keeps offset 1, the trigger moved to [1,1] has offset 0           *)
C37_Witness ==
    /\ last.op = "copy" /\ last.a = 0 /\ last.b = 1
    /\ pre.trigs = << Trig(0, 0, 1, FALSE) >>
    /\ m_triggers = << Trig(0, 0, 1, FALSE), Trig(1, 1, 0, FALSE) >>

=============================================================================
